---- MODULE Spec2Model ----
(***************************************************************************)
(* Crop-disease advisory backend: the input-validation utility             *)
(* (utils/cropValidator.js), the advice routes (routes/cropAdvice.js) and  *)
(* the advice service (services/llmService.js).                            *)
(*                                                                         *)
(* JavaScript strings that the code takes apart (crop and disease names)   *)
(* are sequences of one-character strings; JavaScript values are records   *)
(* tagged with their type in field t.                                      *)
(***************************************************************************)
EXTENDS Integers, Sequences, FiniteSets, TLC

VARIABLES
    vIn,        \* validator harness: the arguments [crop, disease]
    vOp,        \* validator harness: the function applied, "none" before the call
    vOut,       \* validator harness: the value the function returned
    vCalls,     \* validator harness: the matchers the function invoked, in order
    pText,      \* parser harness: the text handed to parseAdviceResponse
    pOp,        \* parser harness: "none", "parse" or "reparse"
    pOut,       \* parser harness: what the last parse returned
    pFirst,     \* parser harness: what the parse of pText returned
    pc,         \* route: "idle", "awaitSingle", "awaitBatch" or "done"
    request,    \* route: the request being served
    validation, \* route: results of validateCropAndDisease for this request, in call order
    cropRuns,   \* route: number of validateCrop runs for this request
    diseaseRuns,\* route: number of validateDisease runs for this request
    adviceCalls,\* route: the AdviceRequests handed to llmService.generateCropAdvice
    geminiCalls,\* route: number of ai.models.generateContent invocations for this request
    settled,    \* batch: the indices of the calls that resolved, in the order they did
    callState,  \* route: per advice call "gemini" (in flight), "hardcoded" (in flight), "ok", "failed"
    response,   \* route: the HTTP response, NoResponse until res.json runs
    aPc,        \* analyze route: "idle", "awaitCnn", "awaitAdvice" or "done"
    aFile,      \* analyze route: req.file
    aPrediction,\* analyze route: cnnResponse.data, NoResponse before the classifier replied
    aAdviceCalls,\* analyze route: the requests handed to llmService.generateCropAdvice
    aResponse,  \* analyze route: the HTTP response
    post,       \* community: the stored CommunityPost, Null when there is none
    likeRequests,\* community: the PUT /:id/like requests, each with its position
    users,      \* accounts: the User collection, the _id of a user is its index
    appSettings,\* accounts: the AppSettings collection
    accountRequests \* accounts: the login and settings requests, each with its position

validatorVars == <<vIn, vOp, vOut, vCalls>>
parserVars == <<pText, pOp, pOut, pFirst>>
analyzeVars == <<aPc, aFile, aPrediction, aAdviceCalls, aResponse>>
likeVars == <<post, likeRequests>>
accountVars == <<users, appSettings, accountRequests>>
appVars == <<analyzeVars, likeVars, accountVars>>
routeVars == <<pc, request, validation, cropRuns, diseaseRuns, adviceCalls, callState, geminiCalls, settled, response>>
vars == <<vIn, vOp, vOut, vCalls, pText, pOp, pOut, pFirst, pc, request, validation, cropRuns, diseaseRuns, adviceCalls, callState, geminiCalls, settled, response,
         aPc, aFile, aPrediction, aAdviceCalls, aResponse, post, likeRequests,
         users, appSettings, accountRequests>>

---------------------------------------------------------------------------
(* Bounds of the model. *)

\* case variants of a vocabulary word upper-case its first 0..MaxUpper characters
MaxUpper == 1
\* longest diseases array of a batch request
MaxBatch == 3

\* the most pieces a free text of the parser harness is put together from
MaxTokens == 3

---------------------------------------------------------------------------
(* JavaScript values. *)

Undefined == [t |-> "undefined"]
Null == [t |-> "null"]
Str(s) == [t |-> "string", v |-> s]
Num(n) == [t |-> "number", v |-> n]
Arr(s) == [t |-> "array", v |-> s]
\* a template literal: the fixed text named by tpl with the values args spliced in
Template(name, args) == [t |-> "template", tpl |-> name, args |-> args]

\* ToBoolean: what `if (x)`, `!x`, `x || y` and filter(Boolean) test
Truthy(x) ==
    CASE x.t = "undefined" -> FALSE
      [] x.t = "null" -> FALSE
      [] x.t = "string" -> x.v # <<>>
      [] x.t = "number" -> x.v # 0
      [] x.t = "boolean" -> x.v
      [] OTHER -> TRUE

\* a || b
OrElse(a, b) == IF Truthy(a) THEN a ELSE b

Range(s) == {s[i] : i \in 1..Len(s)}

---------------------------------------------------------------------------
(* String primitives. *)

LowerLetters ==
    <<"a","b","c","d","e","f","g","h","i","j","k","l","m",
      "n","o","p","q","r","s","t","u","v","w","x","y","z">>
UpperLetters ==
    <<"A","B","C","D","E","F","G","H","I","J","K","L","M",
      "N","O","P","Q","R","S","T","U","V","W","X","Y","Z">>

\* the lower-case letter of every upper-case letter
LowerOf ==
    [ch \in Range(UpperLetters) |-> LowerLetters[CHOOSE i \in 1..26 : UpperLetters[i] = ch]]

\* the upper-case letter of every lower-case letter
UpperOf ==
    [ch \in Range(LowerLetters) |-> UpperLetters[CHOOSE i \in 1..26 : LowerLetters[i] = ch]]

lowerChar(ch) == IF ch \in DOMAIN LowerOf THEN LowerOf[ch] ELSE ch

upperChar(ch) == IF ch \in DOMAIN UpperOf THEN UpperOf[ch] ELSE ch

\* String.prototype.toLowerCase
toLowerCase(s) == [i \in 1..Len(s) |-> lowerChar(s[i])]

\* the white space of String.prototype.trim and of \\s
isSpace(ch) == ch \in {" ", "\n", "\t", "\r"}

\* String.prototype.trim: drops the leading and trailing white space
trim(s) ==
    IF \A i \in 1..Len(s) : isSpace(s[i])
    THEN <<>>
    ELSE LET first == CHOOSE i \in 1..Len(s) : ~isSpace(s[i]) /\ \A j \in 1..(i-1) : isSpace(s[j])
             last == CHOOSE i \in 1..Len(s) : ~isSpace(s[i]) /\ \A j \in (i+1)..Len(s) : isSpace(s[j])
         IN SubSeq(s, first, last)

\* String.prototype.includes: b occurs in a
includes(a, b) ==
    \E i \in 0..(Len(a) - Len(b)) : SubSeq(a, i + 1, i + Len(b)) = b

\* String.prototype.startsWith
startsWith(a, b) == Len(b) <= Len(a) /\ SubSeq(a, 1, Len(b)) = b

\* String.prototype.substring(0, n)
substring0(s, n) == SubSeq(s, 1, IF n < Len(s) THEN n ELSE Len(s))

\* Array.prototype.includes
arrayIncludes(arr, x) == \E i \in 1..Len(arr) : arr[i] = x

\* Array.prototype.find: the first element satisfying P, undefined when none does
find(arr, P(_)) ==
    IF \E i \in 1..Len(arr) : P(arr[i])
    THEN Str(arr[CHOOSE i \in 1..Len(arr) : P(arr[i]) /\ \A j \in 1..(i-1) : ~P(arr[j])])
    ELSE Undefined

\* Array.prototype.filter
filter(arr, P(_)) == SelectSeq(arr, P)

\* Array.prototype.slice(0, n)
slice0(arr, n) == SubSeq(arr, 1, IF n < Len(arr) THEN n ELSE Len(arr))

---------------------------------------------------------------------------
(* The vocabulary of utils/cropValidator.js. *)

VALID_CROPS ==
    <<
      <<"t","o","m","a","t","o">>,
      <<"p","o","t","a","t","o">>,
      <<"p","e","p","p","e","r">>,
      <<"b","e","l","l"," ","p","e","p","p","e","r">>,
      <<"c","h","i","l","i">>,
      <<"c","u","c","u","m","b","e","r">>,
      <<"e","g","g","p","l","a","n","t">>,
      <<"b","r","i","n","j","a","l">>,
      <<"c","a","b","b","a","g","e">>,
      <<"c","a","u","l","i","f","l","o","w","e","r">>,
      <<"l","e","t","t","u","c","e">>,
      <<"s","p","i","n","a","c","h">>,
      <<"c","a","r","r","o","t">>,
      <<"o","n","i","o","n">>,
      <<"g","a","r","l","i","c">>,
      <<"p","u","m","p","k","i","n">>,
      <<"s","q","u","a","s","h">>,
      <<"a","p","p","l","e">>,
      <<"g","r","a","p","e">>,
      <<"o","r","a","n","g","e">>,
      <<"l","e","m","o","n">>,
      <<"s","t","r","a","w","b","e","r","r","y">>,
      <<"b","l","u","e","b","e","r","r","y">>,
      <<"r","a","s","p","b","e","r","r","y">>,
      <<"p","e","a","c","h">>,
      <<"c","h","e","r","r","y">>,
      <<"m","a","n","g","o">>,
      <<"b","a","n","a","n","a">>,
      <<"p","a","p","a","y","a">>,
      <<"c","o","r","n">>,
      <<"m","a","i","z","e">>,
      <<"w","h","e","a","t">>,
      <<"r","i","c","e">>,
      <<"b","a","r","l","e","y">>,
      <<"s","o","y","b","e","a","n">>,
      <<"s","o","y">>,
      <<"c","o","t","t","o","n">>,
      <<"s","u","g","a","r","c","a","n","e">>,
      <<"t","o","b","a","c","c","o">>,
      <<"t","e","a">>,
      <<"c","o","f","f","e","e">>,
      <<"g","r","o","u","n","d","n","u","t">>,
      <<"p","e","a","n","u","t">>,
      <<"s","u","n","f","l","o","w","e","r">>,
      <<"m","u","s","t","a","r","d">> >>

CROP_DISEASES ==
    (<<"t","o","m","a","t","o">> :> <<
        <<"e","a","r","l","y"," ","b","l","i","g","h","t">>,
        <<"l","a","t","e"," ","b","l","i","g","h","t">>,
        <<"l","e","a","f"," ","m","o","l","d">>,
        <<"s","e","p","t","o","r","i","a"," ","l","e","a","f"," ","s","p","o","t">>,
        <<"b","a","c","t","e","r","i","a","l"," ","s","p","o","t">>,
        <<"t","a","r","g","e","t"," ","s","p","o","t">>,
        <<"y","e","l","l","o","w"," ","l","e","a","f"," ","c","u","r","l"," ","v","i","r","u","s">>,
        <<"m","o","s","a","i","c"," ","v","i","r","u","s">>,
        <<"s","p","i","d","e","r"," ","m","i","t","e","s">>,
        <<"t","o","m","a","t","o"," ","y","e","l","l","o","w"," ","l","e","a","f"," ","c","u","r","l"," ","d","i","s","e","a","s","e">>,
        <<"f","u","s","a","r","i","u","m"," ","w","i","l","t">>,
        <<"v","e","r","t","i","c","i","l","l","i","u","m"," ","w","i","l","t">>,
        <<"p","o","w","d","e","r","y"," ","m","i","l","d","e","w">>,
        <<"a","n","t","h","r","a","c","n","o","s","e">> >>)
    @@
    (<<"p","o","t","a","t","o">> :> <<
        <<"e","a","r","l","y"," ","b","l","i","g","h","t">>,
        <<"l","a","t","e"," ","b","l","i","g","h","t">>,
        <<"c","o","m","m","o","n"," ","s","c","a","b">>,
        <<"b","l","a","c","k"," ","s","c","u","r","f">>,
        <<"p","i","n","k"," ","r","o","t">>,
        <<"p","o","w","d","e","r","y"," ","s","c","a","b">>,
        <<"v","e","r","t","i","c","i","l","l","i","u","m"," ","w","i","l","t">>,
        <<"b","a","c","t","e","r","i","a","l"," ","w","i","l","t">>,
        <<"p","o","t","a","t","o"," ","v","i","r","u","s"," ","y">>,
        <<"p","o","t","a","t","o"," ","l","e","a","f"," ","r","o","l","l"," ","v","i","r","u","s">>,
        <<"b","l","a","c","k","l","e","g">> >>)
    @@
    (<<"p","e","p","p","e","r">> :> <<
        <<"b","a","c","t","e","r","i","a","l"," ","s","p","o","t">>,
        <<"c","e","r","c","o","s","p","o","r","a"," ","l","e","a","f"," ","s","p","o","t">>,
        <<"a","n","t","h","r","a","c","n","o","s","e">>,
        <<"p","h","y","t","o","p","h","t","h","o","r","a"," ","b","l","i","g","h","t">>,
        <<"p","o","w","d","e","r","y"," ","m","i","l","d","e","w">>,
        <<"m","o","s","a","i","c"," ","v","i","r","u","s">>,
        <<"l","e","a","f"," ","c","u","r","l">>,
        <<"b","l","o","s","s","o","m"," ","e","n","d"," ","r","o","t">>,
        <<"t","o","b","a","c","c","o"," ","m","o","s","a","i","c"," ","v","i","r","u","s">> >>)
    @@
    (<<"b","e","l","l"," ","p","e","p","p","e","r">> :> <<
        <<"b","a","c","t","e","r","i","a","l"," ","s","p","o","t">>,
        <<"c","e","r","c","o","s","p","o","r","a"," ","l","e","a","f"," ","s","p","o","t">>,
        <<"a","n","t","h","r","a","c","n","o","s","e">>,
        <<"p","h","y","t","o","p","h","t","h","o","r","a"," ","b","l","i","g","h","t">>,
        <<"p","o","w","d","e","r","y"," ","m","i","l","d","e","w">>,
        <<"m","o","s","a","i","c"," ","v","i","r","u","s">>,
        <<"l","e","a","f"," ","c","u","r","l">>,
        <<"b","l","o","s","s","o","m"," ","e","n","d"," ","r","o","t">> >>)
    @@
    (<<"a","p","p","l","e">> :> <<
        <<"a","p","p","l","e"," ","s","c","a","b">>,
        <<"f","i","r","e"," ","b","l","i","g","h","t">>,
        <<"p","o","w","d","e","r","y"," ","m","i","l","d","e","w">>,
        <<"c","e","d","a","r"," ","a","p","p","l","e"," ","r","u","s","t">>,
        <<"b","l","a","c","k"," ","r","o","t">>,
        <<"b","i","t","t","e","r"," ","r","o","t">>,
        <<"b","r","o","w","n"," ","r","o","t">>,
        <<"f","l","y","s","p","e","c","k">>,
        <<"s","o","o","t","y"," ","b","l","o","t","c","h">>,
        <<"a","l","t","e","r","n","a","r","i","a"," ","l","e","a","f"," ","b","l","o","t","c","h">> >>)
    @@
    (<<"g","r","a","p","e">> :> <<
        <<"p","o","w","d","e","r","y"," ","m","i","l","d","e","w">>,
        <<"d","o","w","n","y"," ","m","i","l","d","e","w">>,
        <<"b","l","a","c","k"," ","r","o","t">>,
        <<"a","n","t","h","r","a","c","n","o","s","e">>,
        <<"b","o","t","r","y","t","i","s"," ","b","u","n","c","h"," ","r","o","t">>,
        <<"e","s","c","a">>,
        <<"p","i","e","r","c","e","'","s"," ","d","i","s","e","a","s","e">>,
        <<"c","r","o","w","n"," ","g","a","l","l">>,
        <<"e","u","t","y","p","a"," ","d","i","e","b","a","c","k">>,
        <<"p","h","o","m","o","p","s","i","s"," ","c","a","n","e"," ","a","n","d"," ","l","e","a","f"," ","s","p","o","t">> >>)
    @@
    (<<"c","o","r","n">> :> <<
        <<"n","o","r","t","h","e","r","n"," ","c","o","r","n"," ","l","e","a","f"," ","b","l","i","g","h","t">>,
        <<"s","o","u","t","h","e","r","n"," ","c","o","r","n"," ","l","e","a","f"," ","b","l","i","g","h","t">>,
        <<"c","o","m","m","o","n"," ","r","u","s","t">>,
        <<"s","o","u","t","h","e","r","n"," ","r","u","s","t">>,
        <<"g","r","a","y"," ","l","e","a","f"," ","s","p","o","t">>,
        <<"e","y","e","s","p","o","t">>,
        <<"a","n","t","h","r","a","c","n","o","s","e">>,
        <<"s","t","a","l","k"," ","r","o","t">>,
        <<"e","a","r"," ","r","o","t">>,
        <<"s","m","u","t">>,
        <<"s","t","e","w","a","r","t","'","s"," ","w","i","l","t">>,
        <<"n","o","r","t","h","e","r","n"," ","l","e","a","f"," ","s","p","o","t">> >>)
    @@
    (<<"r","i","c","e">> :> <<
        <<"b","l","a","s","t">>,
        <<"b","r","o","w","n"," ","s","p","o","t">>,
        <<"b","a","c","t","e","r","i","a","l"," ","l","e","a","f"," ","b","l","i","g","h","t">>,
        <<"s","h","e","a","t","h"," ","b","l","i","g","h","t">>,
        <<"t","u","n","g","r","o"," ","v","i","r","u","s">>,
        <<"b","a","c","t","e","r","i","a","l"," ","l","e","a","f"," ","s","t","r","e","a","k">>,
        <<"s","t","e","m"," ","r","o","t">>,
        <<"f","a","l","s","e"," ","s","m","u","t">>,
        <<"b","a","k","a","n","a","e"," ","d","i","s","e","a","s","e">> >>)
    @@
    (<<"w","h","e","a","t">> :> <<
        <<"s","t","r","i","p","e"," ","r","u","s","t">>,
        <<"l","e","a","f"," ","r","u","s","t">>,
        <<"s","t","e","m"," ","r","u","s","t">>,
        <<"p","o","w","d","e","r","y"," ","m","i","l","d","e","w">>,
        <<"s","e","p","t","o","r","i","a"," ","t","r","i","t","i","c","i"," ","b","l","o","t","c","h">>,
        <<"t","a","n"," ","s","p","o","t">>,
        <<"f","u","s","a","r","i","u","m"," ","h","e","a","d"," ","b","l","i","g","h","t">>,
        <<"c","o","m","m","o","n"," ","b","u","n","t">>,
        <<"l","o","o","s","e"," ","s","m","u","t">>,
        <<"t","a","k","e","-","a","l","l">> >>)
    @@
    (<<"c","o","t","t","o","n">> :> <<
        <<"b","a","c","t","e","r","i","a","l"," ","b","l","i","g","h","t">>,
        <<"v","e","r","t","i","c","i","l","l","i","u","m"," ","w","i","l","t">>,
        <<"f","u","s","a","r","i","u","m"," ","w","i","l","t">>,
        <<"a","n","t","h","r","a","c","n","o","s","e">>,
        <<"a","l","t","e","r","n","a","r","i","a"," ","l","e","a","f"," ","s","p","o","t">>,
        <<"p","o","w","d","e","r","y"," ","m","i","l","d","e","w">>,
        <<"r","o","o","t"," ","r","o","t">>,
        <<"s","e","e","d","l","i","n","g"," ","d","i","s","e","a","s","e">>,
        <<"b","o","l","l"," ","r","o","t">> >>)
    @@
    (<<"s","o","y","b","e","a","n">> :> <<
        <<"f","r","o","g","e","y","e"," ","l","e","a","f"," ","s","p","o","t">>,
        <<"b","r","o","w","n"," ","s","p","o","t">>,
        <<"b","a","c","t","e","r","i","a","l"," ","b","l","i","g","h","t">>,
        <<"p","o","d"," ","a","n","d"," ","s","t","e","m"," ","b","l","i","g","h","t">>,
        <<"a","n","t","h","r","a","c","n","o","s","e">>,
        <<"s","u","d","d","e","n"," ","d","e","a","t","h"," ","s","y","n","d","r","o","m","e">>,
        <<"w","h","i","t","e"," ","m","o","l","d">>,
        <<"d","o","w","n","y"," ","m","i","l","d","e","w">>,
        <<"r","u","s","t">>,
        <<"c","h","a","r","c","o","a","l"," ","r","o","t">> >>)
    @@
    (<<"c","u","c","u","m","b","e","r">> :> <<
        <<"a","n","t","h","r","a","c","n","o","s","e">>,
        <<"b","a","c","t","e","r","i","a","l"," ","w","i","l","t">>,
        <<"d","o","w","n","y"," ","m","i","l","d","e","w">>,
        <<"p","o","w","d","e","r","y"," ","m","i","l","d","e","w">>,
        <<"a","n","g","u","l","a","r"," ","l","e","a","f"," ","s","p","o","t">>,
        <<"b","e","l","l","y"," ","r","o","t">>,
        <<"g","u","m","m","y"," ","s","t","e","m"," ","b","l","i","g","h","t">>,
        <<"m","o","s","a","i","c"," ","v","i","r","u","s">>,
        <<"s","c","a","b">> >>)

GENERIC_DISEASES ==
    <<
      <<"f","u","n","g","a","l"," ","i","n","f","e","c","t","i","o","n">>,
      <<"b","a","c","t","e","r","i","a","l"," ","i","n","f","e","c","t","i","o","n">>,
      <<"v","i","r","a","l"," ","i","n","f","e","c","t","i","o","n">>,
      <<"r","o","o","t"," ","r","o","t">>,
      <<"l","e","a","f"," ","s","p","o","t">>,
      <<"b","l","i","g","h","t">>,
      <<"w","i","l","t">>,
      <<"m","i","l","d","e","w">>,
      <<"r","u","s","t">>,
      <<"s","c","a","b">>,
      <<"c","a","n","k","e","r">>,
      <<"r","o","t">>,
      <<"a","n","t","h","r","a","c","n","o","s","e">>,
      <<"m","o","s","a","i","c">> >>

\* does CROP_DISEASES[key] exist
hasDiseaseList(key) == key \in DOMAIN CROP_DISEASES

---------------------------------------------------------------------------
(* utils/cropValidator.js *)

normalizeInput(input) ==
    IF input.t # "string" THEN <<>> ELSE trim(toLowerCase(input.v))

\* mutation of similarCrops: two leading characters are compared
similarCrops_TwoChars(normalizedCrop) ==
    LET cropStart == substring0(normalizedCrop, 2)
        similar(validCrop) == startsWith(validCrop, cropStart) /\ Len(cropStart) >= 2
    IN  filter(VALID_CROPS, similar)

\* VALID_CROPS.filter(validCrop => validCrop.startsWith(cropStart) && cropStart.length >= 3)
similarCrops(normalizedCrop) ==
    LET cropStart == substring0(normalizedCrop, 3)
        similar(validCrop) == startsWith(validCrop, cropStart) /\ Len(cropStart) >= 3
    IN  filter(VALID_CROPS, similar)

\* mutation of validateCrop: the exact-match step is missing
validateCrop_NoExactStep(crop) ==
    LET normalizedCrop == normalizeInput(crop)
        partial(validCrop) ==
            includes(normalizedCrop, validCrop) \/ includes(validCrop, normalizedCrop)
        partialMatch == find(VALID_CROPS, partial)
        suggestions == similarCrops(normalizedCrop)
    IN  IF Truthy(partialMatch)
        THEN [isValid |-> TRUE, suggestedCrop |-> partialMatch,
              warning |-> Template("Interpreted", <<crop, partialMatch>>),
              suggestions |-> Undefined]
        ELSE [isValid |-> FALSE, suggestedCrop |-> Null,
              warning |-> Undefined,
              suggestions |-> IF Len(suggestions) > 0 THEN Arr(suggestions) ELSE Null]

validateCrop(crop) ==
    LET normalizedCrop == normalizeInput(crop)
        partial(validCrop) ==
            includes(normalizedCrop, validCrop) \/ includes(validCrop, normalizedCrop)
        partialMatch == find(VALID_CROPS, partial)
        suggestions == similarCrops(normalizedCrop)
    IN  IF arrayIncludes(VALID_CROPS, normalizedCrop)
        THEN [isValid |-> TRUE, suggestedCrop |-> Str(normalizedCrop),
              warning |-> Undefined, suggestions |-> Undefined]
        ELSE IF Truthy(partialMatch)
        THEN [isValid |-> TRUE, suggestedCrop |-> partialMatch,
              warning |-> Template("Interpreted", <<crop, partialMatch>>),
              suggestions |-> Undefined]
        ELSE [isValid |-> FALSE, suggestedCrop |-> Null,
              warning |-> Undefined,
              suggestions |-> IF Len(suggestions) > 0 THEN Arr(suggestions) ELSE Null]

GenericWarning == Template("This is a generic disease term", <<>>)

\* mutation of genericDiseaseMatch: only a generic term inside the input counts
genericDiseaseMatch_OneWay(normalizedDisease) ==
    LET near(genericDisease) == includes(normalizedDisease, genericDisease)
    IN  find(GENERIC_DISEASES, near)

\* GENERIC_DISEASES.find(genericDisease => normalizedDisease.includes(genericDisease)
\*                                          || genericDisease.includes(normalizedDisease))
genericDiseaseMatch(normalizedDisease) ==
    LET near(genericDisease) ==
            includes(normalizedDisease, genericDisease) \/ includes(genericDisease, normalizedDisease)
    IN  find(GENERIC_DISEASES, near)

\* mutation of diseaseSuggestions: no fallback to the head of the list
diseaseSuggestions_NoFallback(cropSpecificDiseases, normalizedDisease) ==
    LET diseaseStart == substring0(normalizedDisease, 4)
        similar(validDisease) == includes(validDisease, diseaseStart) /\ Len(diseaseStart) >= 4
    IN  filter(cropSpecificDiseases, similar)

\* the suggestions of a failed crop-specific match
diseaseSuggestions(cropSpecificDiseases, normalizedDisease) ==
    LET diseaseStart == substring0(normalizedDisease, 4)
        similar(validDisease) == includes(validDisease, diseaseStart) /\ Len(diseaseStart) >= 4
        suggestions == filter(cropSpecificDiseases, similar)
    IN  IF Len(suggestions) > 0 THEN suggestions ELSE slice0(cropSpecificDiseases, 5)

validateDisease(crop, disease) ==
    LET normalizedCrop == normalizeInput(crop)
        normalizedDisease == normalizeInput(disease)
        near(validDisease) ==
            includes(normalizedDisease, validDisease) \/ includes(validDisease, normalizedDisease)
        genericMatch == genericDiseaseMatch(normalizedDisease)
    IN  IF hasDiseaseList(normalizedCrop)
        THEN LET cropSpecificDiseases == CROP_DISEASES[normalizedCrop]
                 partialMatch == find(cropSpecificDiseases, near)
             IN  IF arrayIncludes(cropSpecificDiseases, normalizedDisease)
                 THEN [isValid |-> TRUE, message |-> Null, suggestedDisease |-> Undefined,
                       warning |-> Undefined, suggestions |-> Undefined]
                 ELSE IF Truthy(partialMatch)
                 THEN [isValid |-> TRUE,
                       message |-> Template("Interpreted", <<disease, partialMatch>>),
                       suggestedDisease |-> partialMatch,
                       warning |-> Undefined, suggestions |-> Undefined]
                 ELSE IF Truthy(genericMatch)
                 THEN [isValid |-> TRUE,
                       message |-> Template("Accepted generic disease", <<disease>>),
                       suggestedDisease |-> Undefined,
                       warning |-> GenericWarning, suggestions |-> Undefined]
                 ELSE [isValid |-> FALSE,
                       message |-> Template("is not a recognized disease for", <<disease, crop>>),
                       suggestedDisease |-> Undefined, warning |-> Undefined,
                       suggestions |-> Arr(diseaseSuggestions(cropSpecificDiseases, normalizedDisease))]
        ELSE IF Truthy(genericMatch)
        THEN [isValid |-> TRUE, message |-> Undefined, suggestedDisease |-> Undefined,
              warning |-> GenericWarning, suggestions |-> Undefined]
        ELSE [isValid |-> FALSE,
              message |-> Template("is not a recognized disease", <<disease>>),
              suggestedDisease |-> Undefined, warning |-> Undefined,
              suggestions |-> Arr(slice0(GENERIC_DISEASES, 5))]

\* mutation of composeValidation: the disease failure does not carry the crop
composeValidation_DropsCrop(crop, disease, cropValidation, diseaseValidation) ==
    IF ~cropValidation.isValid
    THEN [success |-> FALSE,
          error |-> Template("Invalid crop name", <<crop>>),
          message |-> Template("Please provide a valid crop name.", <<>>),
          suggestions |-> cropValidation.suggestions,
          validCrops |-> Arr(slice0(VALID_CROPS, 20)),
          crop |-> Undefined, disease |-> Undefined, warnings |-> Undefined]
    ELSE IF ~diseaseValidation.isValid
    THEN [success |-> FALSE,
          error |-> Template("Invalid disease for", <<cropValidation.suggestedCrop, disease>>),
          message |-> diseaseValidation.message,
          suggestions |-> diseaseValidation.suggestions,
          validCrops |-> Undefined,
          crop |-> Undefined,
          disease |-> Undefined, warnings |-> Undefined]
    ELSE [success |-> TRUE,
          error |-> Undefined, message |-> Undefined, suggestions |-> Undefined,
          validCrops |-> Undefined,
          crop |-> cropValidation.suggestedCrop,
          disease |-> OrElse(diseaseValidation.suggestedDisease, disease),
          warnings |-> Arr(filter(<<cropValidation.warning, diseaseValidation.warning>>, Truthy))]

\* validateCropAndDisease once both matchers' results are at hand; the disease
\* matcher's result is looked at only after the crop matched
composeValidation(crop, disease, cropValidation, diseaseValidation) ==
    IF ~cropValidation.isValid
    THEN [success |-> FALSE,
          error |-> Template("Invalid crop name", <<crop>>),
          message |-> Template("Please provide a valid crop name.", <<>>),
          suggestions |-> cropValidation.suggestions,
          validCrops |-> Arr(slice0(VALID_CROPS, 20)),
          crop |-> Undefined, disease |-> Undefined, warnings |-> Undefined]
    ELSE IF ~diseaseValidation.isValid
    THEN [success |-> FALSE,
          error |-> Template("Invalid disease for", <<cropValidation.suggestedCrop, disease>>),
          message |-> diseaseValidation.message,
          suggestions |-> diseaseValidation.suggestions,
          validCrops |-> Undefined,
          crop |-> cropValidation.suggestedCrop,
          disease |-> Undefined, warnings |-> Undefined]
    ELSE [success |-> TRUE,
          error |-> Undefined, message |-> Undefined, suggestions |-> Undefined,
          validCrops |-> Undefined,
          crop |-> cropValidation.suggestedCrop,
          disease |-> OrElse(diseaseValidation.suggestedDisease, disease),
          warnings |-> Arr(filter(<<cropValidation.warning, diseaseValidation.warning>>, Truthy))]

\* the disease matcher runs against the crop the crop matcher resolved
validateDiseaseOfCrop(crop, disease, cropValidation) ==
    composeValidation(crop, disease, cropValidation,
                      validateDisease(cropValidation.suggestedCrop, disease))

validateCropAndDisease(crop, disease) ==
    validateDiseaseOfCrop(crop, disease, validateCrop(crop))

\* the matchers validateCropAndDisease invokes, in order: it returns after
\* validateCrop when the crop did not match
matcherCalls(crop) ==
    IF ~validateCrop(crop).isValid
    THEN <<"validateCrop">>
    ELSE <<"validateCrop", "validateDisease">>

getDiseasesForCrop(crop) ==
    LET normalizedCrop == normalizeInput(crop)
    IN  IF hasDiseaseList(normalizedCrop) THEN Arr(CROP_DISEASES[normalizedCrop]) ELSE Null

---------------------------------------------------------------------------
(* Inputs of the validator harness. *)

\* s with the first k characters of every word in upper case
capitalize(s, k) ==
    [i \in 1..Len(s) |->
        IF \E j \in 1..k : j <= i /\ \A m \in (i - j + 1)..i : s[m] # " "
                           /\ (i - j = 0 \/ s[i - j] = " ")
        THEN upperChar(s[i]) ELSE s[i]]

toUpperCase(s) == [i \in 1..Len(s) |-> upperChar(s[i])]

CaseVariants(s) == {capitalize(s, k) : k \in 0..MaxUpper} \cup {toUpperCase(s)}

\* values that are no vocabulary word in any spelling
OddCrops ==
    { Undefined, Null, Num(5), Str(<<>>), Str(<<" ">>),
      Str(<<"x","y","z","1","2","3">>), Str(<<"x","y">>),
      Str(<<"t","o","m","x">>), Str(<<"t","o","x","x">>), Str(<<"p","e","a">>),
      Str(<<" ","T","o","m","a","t","o"," ">>) }

CropInputs ==
    {Str(v) : v \in UNION {CaseVariants(c) : c \in Range(VALID_CROPS)}}
    \cup {Str(c \o <<"e">>) : c \in Range(VALID_CROPS)}
    \cup OddCrops

OddDiseases ==
    { Undefined, Str(<<>>),
      Str(<<"E","a","r","l","y"," ","B","l","i","g","h","t">>),
      Str(<<"e","a","r","l","y"," ","b","l","t">>),
      Str(<<"r","a","n","d","o","m"," ","n","o","n","s","e","n","s","e">>),
      Str(<<"R","O","T">>),
      Str(<<"b","l","i","g","h","t">>),
      Str(<<"f","u","n","g","a","l">>),
      Str(<<"x","y","z">>),
      Str(<<"l","e","a","f"," ","s","p","o","t","s">>),
      Str(<<"a","n","y","t","h","i","n","g">>) }

ValidatorInputs ==
    {[crop |-> c, disease |-> d] : c \in CropInputs, d \in OddDiseases}
    \cup UNION { UNION { {[crop |-> Str(c), disease |-> Str(v)] : v \in CaseVariants(d)}
                         : d \in Range(CROP_DISEASES[c]) }
                 : c \in DOMAIN CROP_DISEASES }

---------------------------------------------------------------------------
(* The validator harness: each exported function applied to drawn arguments. *)

NoResponse == [t |-> "none"]

RouteIdle ==
    /\ pc = "idle"
    /\ request = [kind |-> "none", body |-> Undefined]
    /\ validation = <<>>
    /\ cropRuns = 0
    /\ diseaseRuns = 0
    /\ adviceCalls = <<>>
    /\ callState = <<>>
    /\ geminiCalls = 0
    /\ settled = <<>>
    /\ response = NoResponse

ParserIdle ==
    /\ pText = Undefined
    /\ pOp = "none"
    /\ pOut = Undefined
    /\ pFirst = Undefined

AnalyzeIdle ==
    /\ aPc = "idle"
    /\ aFile = Undefined
    /\ aPrediction = NoResponse
    /\ aAdviceCalls = <<>>
    /\ aResponse = NoResponse

LikeIdle ==
    /\ post = Null
    /\ likeRequests = <<>>

AccountIdle ==
    /\ users = <<>>
    /\ appSettings = <<>>
    /\ accountRequests = <<>>

AppIdle == AnalyzeIdle /\ LikeIdle /\ AccountIdle

HarnessIdle ==
    /\ vIn = [crop |-> Undefined, disease |-> Undefined]
    /\ vOp = "none"
    /\ vOut = Undefined
    /\ vCalls = <<>>

ApplyValidateCrop ==
    /\ vOp = "none"
    /\ vOp' = "validateCrop"
    /\ vOut' = validateCrop(vIn.crop)
    /\ vCalls' = <<>>
    /\ UNCHANGED <<vIn, routeVars, parserVars, appVars>>

ApplyValidateDisease ==
    /\ vOp = "none"
    /\ vOp' = "validateDisease"
    /\ vOut' = validateDisease(vIn.crop, vIn.disease)
    /\ vCalls' = <<>>
    /\ UNCHANGED <<vIn, routeVars, parserVars, appVars>>

ApplyValidateCropAndDisease ==
    /\ vOp = "none"
    /\ vOp' = "validateCropAndDisease"
    /\ vOut' = validateCropAndDisease(vIn.crop, vIn.disease)
    /\ vCalls' = matcherCalls(vIn.crop)
    /\ UNCHANGED <<vIn, routeVars, parserVars, appVars>>

ValidatorInit ==
    /\ vIn \in ValidatorInputs
    /\ vOp = "none"
    /\ vOut = Undefined
    /\ vCalls = <<>>
    /\ RouteIdle
    /\ ParserIdle
    /\ AppIdle

ValidatorNext ==
    \/ ApplyValidateCrop
    \/ ApplyValidateDisease
    \/ ApplyValidateCropAndDisease

SpecValidator == ValidatorInit /\ [][ValidatorNext]_vars

---------------------------------------------------------------------------
(* services/llmService.js: what the routes see of the advice service. *)

EN == Str(<<"e","n">>)
UNKNOWN == Str(<<"u","n","k","n","o","w","n">>)

\* a string the model never takes apart
Text(s) == [t |-> "text", s |-> s]

\* const languageMap = { 'en': 'English', ... }
languageMap ==
    <<"e","n">> :> "English" @@
    <<"h","i">> :> "Hindi" @@
    <<"t","a">> :> "Tamil" @@
    <<"t","e">> :> "Telugu" @@
    <<"k","n">> :> "Kannada" @@
    <<"b","n">> :> "Bengali" @@
    <<"m","r">> :> "Marathi" @@
    <<"g","u">> :> "Gujarati" @@
    <<"p","a">> :> "Punjabi" @@
    <<"m","l">> :> "Malayalam" @@
    <<"o","r">> :> "Odia" @@
    <<"a","s">> :> "Assamese" @@
    <<"u","r">> :> "Urdu" @@
    <<"n","e">> :> "Nepali" @@
    <<"s","a">> :> "Sanskrit"

\* languageMap[code]: undefined for a code that is no key of the map
getLanguageName(code) ==
    IF code.t = "string" /\ code.v \in DOMAIN languageMap
    THEN Text(languageMap[code.v]) ELSE Undefined

\* the language the Gemini prompt asks the answer in: ${languageName}
promptLanguage(diseaseData) == getLanguageName(diseaseData.language)

\* mutation of adviceSource: the table is not consulted before the Gemini call
adviceSource_AlwaysGemini(diseaseData) == "gemini"

\* generateCropAdvice up to its first await: a request whose language is set
\* and is not 'en' waits for the pre-authored table ("hardcoded"), any other
\* request has called ai.models.generateContent and waits for it ("gemini")
adviceSource(diseaseData) ==
    IF Truthy(diseaseData.language) /\ diseaseData.language # EN
    THEN "hardcoded" ELSE "gemini"

\* getHardcodedAdvice(language, crop, disease) of data/hardcodedAdvice.js: a
\* pure lookup crop x disease x language -> content that makes no call
getHardcodedAdvice(language, crop, disease) ==
    [t |-> "hardcodedData", language |-> language, crop |-> crop, disease |-> disease]

\* what parseAdviceResponse makes of the text Gemini answered with
ParsedOutput == [t |-> "parsedOutput"]

\* the advice object generateCropAdvice resolves with
adviceFor(diseaseData, source) ==
    [t |-> "advice",
     fields |-> IF source = "hardcoded"
                THEN getHardcodedAdvice(diseaseData.language, diseaseData.crop, diseaseData.disease)
                ELSE ParsedOutput,
     metadata |-> [crop |-> diseaseData.crop, disease |-> diseaseData.disease,
                   severity |-> diseaseData.severity,
                   confidence |-> diseaseData.confidence,
                   model |-> IF source = "hardcoded" THEN "hardcoded-data"
                             ELSE "gemini-2.5-flash",
                   language |-> IF source = "hardcoded"
                                THEN getLanguageName(diseaseData.language) ELSE Undefined]]

\* the ai.models.generateContent calls generateCropAdvice makes up to its
\* first await: one on the Gemini path, none when it returns from the
\* pre-authored table
generateContentCalls(diseaseData) ==
    IF adviceSource(diseaseData) = "gemini" THEN 1 ELSE 0

\* mutation of callsAfterRejection: the catch block calls generateContent again
callsAfterRejection_Retry(calls) == calls + 1

\* the generateContent calls made once the catch block of generateCropAdvice
\* has run: it logs and rethrows, it makes no call
callsAfterRejection(calls) == calls

\* the Error generateCropAdvice throws when the Gemini call fails
adviceError == Template("Failed to generate advice from Gemini AI", <<>>)

---------------------------------------------------------------------------
(* routes/cropAdvice.js: responses. *)

Response(status, success) ==
    [t |-> "response", status |-> status, success |-> success,
     error |-> Undefined, message |-> Undefined, suggestions |-> Undefined,
     userGuidance |-> Undefined, validCrops |-> Undefined,
     validDiseases |-> Undefined, index |-> Undefined,
     data |-> Undefined, warnings |-> Undefined]

\* the 400 answer to a failed validateCropAndDisease
validationFailure(validationResult, index) ==
    [Response(400, FALSE) EXCEPT
        !.error = IF index.t = "undefined" THEN validationResult.error
                  ELSE Template("Entry", <<Num(index.v + 1), validationResult.error>>),
        !.message = validationResult.message,
        !.suggestions = validationResult.suggestions,
        !.index = index,
        !.userGuidance =
            IF Truthy(validationResult.validCrops)
            THEN Template("Please provide a correct crop name from the list of valid crops.", <<>>)
            ELSE Template("Please provide a correct disease name for", <<validationResult.crop>>),
        !.validCrops = validationResult.validCrops,
        !.validDiseases =
            IF Truthy(validationResult.crop)
            THEN getDiseasesForCrop(validationResult.crop) ELSE Null]

\* mutation of errorResponse: the catch block answers with default advice
errorResponse_Fabricates(error, fallback) ==
    [Response(200, TRUE) EXCEPT
        !.data = [t |-> "advice", metadata |-> [model |-> "default"]]]

\* the 500 answer of a catch block
errorResponse(error, fallback) ==
    [Response(500, FALSE) EXCEPT !.error = OrElse(error, fallback)]

\* matcher runs of one validateCropAndDisease
diseaseRunsOf(validationResult) ==
    IF validationResult.success \/ Truthy(validationResult.crop) THEN 1 ELSE 0

---------------------------------------------------------------------------
(* POST /crop-advice *)

\* mutation of missingFields: only the crop is tested
missingFields_CropOnly(crop, disease) == ~Truthy(crop)

\* if (!crop || !disease)
missingFields(crop, disease) == ~Truthy(crop) \/ ~Truthy(disease)

\* mutation of validationRejected: the validation result is ignored
validationRejected_Never(validationResult) == FALSE

\* if (!validationResult.success)
validationRejected(validationResult) == ~validationResult.success

\* mutation of confidenceOutOfRange: the bounds 0 and 1 are rejected too
confidenceOutOfRange_Exclusive(confidence) ==
    confidence.t # "undefined" /\ (confidence.v <= 0 \/ confidence.v >= 100)

\* mutation of confidenceOutOfRange: only the upper bound is tested
confidenceOutOfRange_UpperOnly(confidence) ==
    confidence.t # "undefined" /\ confidence.v > 100

\* if (confidence !== undefined && (confidence < 0 || confidence > 1));
\* confidence is carried in hundredths: 0 is 0, 100 is 1
confidenceOutOfRange(confidence) ==
    confidence.t # "undefined" /\ (confidence.v < 0 \/ confidence.v > 100)

\* the object handed to llmService.generateCropAdvice
singleAdviceRequest(body, validationResult) ==
    [crop |-> validationResult.crop,
     disease |-> validationResult.disease,
     severity |-> OrElse(body.severity, UNKNOWN),
     confidence |-> OrElse(body.confidence, Num(0)),
     language |-> OrElse(body.language, EN)]

\* the handler after validateCropAndDisease returned
afterValidation(body, validationResult) ==
    /\ validation' = <<validationResult>>
    /\ cropRuns' = 1
    /\ diseaseRuns' = diseaseRunsOf(validationResult)
    /\ IF validationRejected(validationResult)
       THEN /\ response' = validationFailure(validationResult, Undefined)
            /\ adviceCalls' = <<>>
            /\ callState' = <<>>
            /\ geminiCalls' = 0
            /\ pc' = "done"
       ELSE IF confidenceOutOfRange(body.confidence)
       THEN /\ response' = [Response(400, FALSE) EXCEPT
                               !.error = Template("Confidence must be between 0 and 1", <<>>)]
            /\ adviceCalls' = <<>>
            /\ callState' = <<>>
            /\ geminiCalls' = 0
            /\ pc' = "done"
       ELSE /\ adviceCalls' = <<singleAdviceRequest(body, validationResult)>>
            /\ callState' = <<adviceSource(singleAdviceRequest(body, validationResult))>>
            /\ geminiCalls' = generateContentCalls(singleAdviceRequest(body, validationResult))
            /\ response' = NoResponse
            /\ pc' = "awaitSingle"

\* the handler up to its first await, or to its early return
PostCropAdvice(body) ==
    /\ pc = "idle"
    /\ request' = [kind |-> "single", body |-> body]
    /\ IF missingFields(body.crop, body.disease)
       THEN /\ response' = [Response(400, FALSE) EXCEPT
                               !.error = Template("Missing required fields: crop and disease are required", <<>>)]
            /\ validation' = <<>>
            /\ cropRuns' = 0
            /\ diseaseRuns' = 0
            /\ adviceCalls' = <<>>
            /\ callState' = <<>>
            /\ geminiCalls' = 0
            /\ pc' = "done"
       ELSE afterValidation(body, validateCropAndDisease(body.crop, body.disease))
    /\ UNCHANGED <<settled, validatorVars, parserVars, appVars>>

\* generateCropAdvice resolved: res.json({success: true, data: advice, warnings})
SingleAdviceResolves ==
    /\ pc = "awaitSingle"
    /\ callState[1] \in {"gemini", "hardcoded"}
    /\ callState' = <<"ok">>
    /\ response' = [Response(200, TRUE) EXCEPT
                       !.data = adviceFor(adviceCalls[1], callState[1]),
                       !.warnings = validation[1].warnings]
    /\ pc' = "done"
    /\ UNCHANGED <<request, validation, cropRuns, diseaseRuns, adviceCalls, geminiCalls, settled, validatorVars, parserVars, appVars>>

\* the Gemini call failed: generateCropAdvice throws, the route's catch answers 500
SingleAdviceRejects ==
    /\ pc = "awaitSingle"
    /\ callState[1] = "gemini"
    /\ callState' = <<"failed">>
    /\ geminiCalls' = callsAfterRejection(geminiCalls)
    /\ response' = errorResponse(adviceError, Template("Failed to generate crop advice", <<>>))
    /\ pc' = "done"
    /\ UNCHANGED <<request, validation, cropRuns, diseaseRuns, adviceCalls, settled, validatorVars, parserVars, appVars>>

---------------------------------------------------------------------------
(* POST /crop-advice/batch *)

\* if (!diseases || !Array.isArray(diseases) || diseases.length === 0)
invalidDiseasesArray(diseases) ==
    ~Truthy(diseases) \/ diseases.t # "array" \/ Len(diseases.v) = 0

\* mutation of entryIndex: the index is counted from 1, like the message
entryIndex_OneBased(i) == Num(i + 1)

\* index: i
entryIndex(i) == Num(i)

\* the entry pushed on validatedDiseases
validatedEntry(diseaseData, validationResult) ==
    [crop |-> validationResult.crop,
     disease |-> validationResult.disease,
     severity |-> OrElse(diseaseData.severity, UNKNOWN),
     confidence |-> OrElse(diseaseData.confidence, Num(0)),
     warnings |-> validationResult.warnings]

\* validateCropAndDisease of every entry
entryResults(diseases) ==
    [k \in 1..Len(diseases) |-> validateCropAndDisease(diseases[k].crop, diseases[k].disease)]

\* the entries (counted from 0) at which the loop body returns
failingEntries(diseases, results) ==
    {i \in 0..(Len(diseases) - 1) :
        \/ missingFields(diseases[i + 1].crop, diseases[i + 1].disease)
        \/ validationRejected(results[i + 1])}

\* the loop ran through every entry
loopCompleted(diseases, results) ==
    [response |-> NoResponse,
     validatedDiseases |-> [k \in 1..Len(diseases) |-> validatedEntry(diseases[k], results[k])],
     validation |-> results]

\* the loop body returned at entry i: validateCropAndDisease ran for the
\* entries before it, and for entry i unless its fields are missing
loopReturned(diseases, results, i) ==
    IF missingFields(diseases[i + 1].crop, diseases[i + 1].disease)
    THEN [response |-> [Response(400, FALSE) EXCEPT
                           !.error = Template("Entry: Missing crop or disease fields", <<Num(i + 1)>>),
                           !.index = entryIndex(i)],
          validatedDiseases |-> [k \in 1..i |-> validatedEntry(diseases[k], results[k])],
          validation |-> SubSeq(results, 1, i)]
    ELSE [response |-> validationFailure(results[i + 1], entryIndex(i)),
          validatedDiseases |-> [k \in 1..i |-> validatedEntry(diseases[k], results[k])],
          validation |-> SubSeq(results, 1, i + 1)]

\* the loop returns at the first failing entry
loopOutcome(diseases, results, failing) ==
    IF failing = {}
    THEN loopCompleted(diseases, results)
    ELSE loopReturned(diseases, results, CHOOSE i \in failing : \A j \in failing : i <= j)

loopOver(diseases, results) ==
    loopOutcome(diseases, results, failingEntries(diseases, results))

\* for (let i = 0; i < diseases.length; i++) { ... }
validateEntries(diseases) == loopOver(diseases, entryResults(diseases))

\* what generateCropAdvice destructures from its argument
destructured(data) ==
    [crop |-> data.crop, disease |-> data.disease, severity |-> data.severity,
     confidence |-> data.confidence,
     language |-> IF "language" \in DOMAIN data THEN data.language ELSE Undefined]

\* the handler after the validation loop
afterLoop(loop) ==
    /\ validation' = loop.validation
    /\ cropRuns' = Len(loop.validation)
    /\ diseaseRuns' = Cardinality({i \in 1..Len(loop.validation) :
                                     diseaseRunsOf(loop.validation[i]) = 1})
    /\ IF loop.response # NoResponse
       THEN /\ response' = loop.response
            /\ adviceCalls' = <<>>
            /\ callState' = <<>>
            /\ geminiCalls' = 0
            /\ pc' = "done"
       ELSE /\ adviceCalls' = [i \in 1..Len(loop.validatedDiseases) |->
                                  destructured(loop.validatedDiseases[i])]
            /\ callState' = [i \in 1..Len(loop.validatedDiseases) |->
                                adviceSource(destructured(loop.validatedDiseases[i]))]
            /\ geminiCalls' = Cardinality({i \in 1..Len(loop.validatedDiseases) :
                                  generateContentCalls(destructured(loop.validatedDiseases[i])) = 1})
            /\ response' = NoResponse
            /\ pc' = "awaitBatch"

\* the handler up to its first await, or to its early return;
\* generateBatchAdvice maps every entry to a generateCropAdvice call at once
PostCropAdviceBatch(body) ==
    /\ pc = "idle"
    /\ request' = [kind |-> "batch", body |-> body]
    /\ IF invalidDiseasesArray(body.diseases)
       THEN /\ response' = [Response(400, FALSE) EXCEPT
                               !.error = Template("Missing or invalid diseases array", <<>>)]
            /\ validation' = <<>>
            /\ cropRuns' = 0
            /\ diseaseRuns' = 0
            /\ adviceCalls' = <<>>
            /\ callState' = <<>>
            /\ geminiCalls' = 0
            /\ pc' = "done"
       ELSE afterLoop(validateEntries(body.diseases.v))
    /\ UNCHANGED <<settled, validatorVars, parserVars, appVars>>

inFlight(i) == i \in DOMAIN callState /\ callState[i] \in {"gemini", "hardcoded"}

\* mutation of promiseAll: the values in the order the promises were fulfilled
promiseAll_CompletionOrder(values, order) == [k \in 1..Len(order) |-> values[order[k]]]

\* Promise.all(promises): the value of the i-th promise stands at index i,
\* whatever the order the promises were fulfilled in
promiseAll(values, order) == [i \in 1..Len(order) |-> values[i]]

\* diseaseDataArray.map(data => this.generateCropAdvice(data)): what each
\* call resolves with
generateBatchAdvice(diseaseDataArray) ==
    [j \in DOMAIN diseaseDataArray |-> adviceFor(diseaseDataArray[j], "gemini")]

\* one generateCropAdvice of the batch resolved; Promise.all resolves once
\* every call has resolved
BatchAdviceResolves(i) ==
    /\ request.kind = "batch"
    /\ inFlight(i)
    /\ callState' = [callState EXCEPT ![i] = "ok"]
    /\ settled' = Append(settled, i)
    /\ IF pc = "awaitBatch" /\ \A j \in DOMAIN callState : j # i => callState[j] = "ok"
       THEN /\ response' = [Response(200, TRUE) EXCEPT
                               !.data = Arr(promiseAll(generateBatchAdvice(adviceCalls),
                                                       Append(settled, i)))]
            /\ pc' = "done"
       ELSE UNCHANGED <<response, pc>>
    /\ UNCHANGED <<request, validation, cropRuns, diseaseRuns, adviceCalls, geminiCalls, validatorVars, parserVars, appVars>>

\* one Gemini call of the batch failed; Promise.all rejects at the first
\* rejection and the route's catch answers 500, later settlements are ignored
BatchAdviceRejects(i) ==
    /\ request.kind = "batch"
    /\ i \in DOMAIN callState
    /\ callState[i] = "gemini"
    /\ callState' = [callState EXCEPT ![i] = "failed"]
    /\ geminiCalls' = callsAfterRejection(geminiCalls)
    /\ IF pc = "awaitBatch"
       THEN /\ response' = errorResponse(adviceError, Template("Failed to generate batch crop advice", <<>>))
            /\ pc' = "done"
       ELSE UNCHANGED <<response, pc>>
    /\ UNCHANGED <<request, validation, cropRuns, diseaseRuns, adviceCalls, settled, validatorVars, parserVars, appVars>>

---------------------------------------------------------------------------
(* Requests. *)

TOMATO == Str(<<"T","o","m","a","t","o">>)
EARLY_BLIGHT == Str(<<"E","a","r","l","y"," ","B","l","i","g","h","t">>)
NONSENSE == Str(<<"r","a","n","d","o","m"," ","n","o","n","s","e","n","s","e">>)
XYZ123 == Str(<<"x","y","z","1","2","3">>)

BodyCrops ==
    { Undefined, Str(<<>>), TOMATO, XYZ123,
      Str(<<"t","o","m","a","t","o","e">>), Str(<<"o","r","a","n","g","e">>) }

BodyDiseases ==
    { Undefined, Str(<<>>), EARLY_BLIGHT, NONSENSE,
      Str(<<"b","l","i","g","h","t">>), Str(<<"R","O","T">>),
      Str(<<"e","a","r","l","y"," ","b","l","t">>) }

\* hundredths: -0.01, 0, 0.5, 1, 1.01
BodyConfidences == {Undefined, Num(-1), Num(0), Num(50), Num(100), Num(101)}

BodyLanguages == {Undefined, EN, Str(<<"h","i">>), Str(<<"x","x">>)}

BodySeverities == {Undefined, Str(<<"h","i","g","h">>)}

SingleBodies ==
    [crop : BodyCrops, disease : BodyDiseases, severity : BodySeverities,
     confidence : BodyConfidences, language : BodyLanguages]

BatchEntries ==
    { [crop |-> TOMATO, disease |-> EARLY_BLIGHT, severity |-> Str(<<"h","i","g","h">>), confidence |-> Num(93)],
      [crop |-> Str(<<"p","o","t","a","t","o">>), disease |-> Str(<<"b","l","i","g","h","t">>), severity |-> Undefined, confidence |-> Undefined],
      [crop |-> TOMATO, disease |-> EARLY_BLIGHT, severity |-> Undefined, confidence |-> Num(150)],
      [crop |-> XYZ123, disease |-> EARLY_BLIGHT, severity |-> Undefined, confidence |-> Num(93)],
      [crop |-> TOMATO, disease |-> NONSENSE, severity |-> Undefined, confidence |-> Num(93)],
      [crop |-> TOMATO, disease |-> Undefined, severity |-> Undefined, confidence |-> Num(93)] }

BatchBodies ==
    { [diseases |-> Undefined], [diseases |-> Str(<<"x">>)] }
    \cup { [diseases |-> Arr(s)] : s \in UNION {[1..n -> BatchEntries] : n \in 0..MaxBatch} }

---------------------------------------------------------------------------
(* The routes as a state machine. *)

Init == RouteIdle /\ HarnessIdle /\ ParserIdle /\ AppIdle

Next ==
    \/ \E body \in SingleBodies : PostCropAdvice(body)
    \/ SingleAdviceResolves
    \/ SingleAdviceRejects
    \/ \E body \in BatchBodies : PostCropAdviceBatch(body)
    \/ \E i \in 1..MaxBatch : BatchAdviceResolves(i)
    \/ \E i \in 1..MaxBatch : BatchAdviceRejects(i)

Spec == Init /\ [][Next]_vars


---------------------------------------------------------------------------
(* services/llmService.js: parseAdviceResponse. *)

\* the labels of the six regular expressions, in the order of the fields
LABELS ==
    << <<"C","A","U","S","E",":">>,
       <<"S","Y","M","P","T","O","M","S",":">>,
       <<"I","M","M","E","D","I","A","T","E",":">>,
       <<"C","H","E","M","I","C","A","L",":">>,
       <<"O","R","G","A","N","I","C",":">>,
       <<"P","R","E","V","E","N","T","I","O","N",":">> >>

\* the fallback of each field
FALLBACKS ==
    << <<"U","n","a","b","l","e"," ","t","o"," ","d","e","t","e","r","m","i","n","e"," ","c","a","u","s","e">>,
       <<"U","n","a","b","l","e"," ","t","o"," ","d","e","t","e","r","m","i","n","e"," ","s","y","m","p","t","o","m","s">>,
       <<"C","o","n","s","u","l","t"," ","a","g","r","i","c","u","l","t","u","r","a","l"," ","e","x","p","e","r","t">>,
       <<"C","o","n","s","u","l","t"," ","l","o","c","a","l"," ","a","g","r","i","c","u","l","t","u","r","e"," ","o","f","f","i","c","e">>,
       <<"N","e","e","m"," ","o","i","l"," ","s","p","r","a","y"," ","r","e","c","o","m","m","e","n","d","e","d">>,
       <<"M","a","i","n","t","a","i","n"," ","p","r","o","p","e","r"," ","p","l","a","n","t"," ","h","y","g","i","e","n","e">> >>

\* the fields of the advice object, in the order they are assigned
FIELDS == <<"cause", "symptoms", "immediate", "chemical", "organic", "prevention">>

\* what the catch block of parseAdviceResponse throws
ParseError == [error |-> "Failed to parse AI response"]

\* the word stands at position i of the lower-cased text (flag i)
occursAt(lower, word, i) ==
    /\ i + Len(word) - 1 <= Len(lower)
    /\ SubSeq(lower, i, i + Len(word) - 1) = word

\* the least member of a non-empty set of positions
leftmost(positions) == CHOOSE i \in positions : \A j \in positions : i <= j

\* the leftmost position where the word stands, 0 when there is none
indexOf(lower, word) ==
    LET positions == {i \in 1..Len(lower) : occursAt(lower, word, i)}
    IN  IF positions = {} THEN 0 ELSE leftmost(positions)

\* \s* : the position after the run of white space that starts at q
spacesEnd(text, q) ==
    CHOOSE s \in q..(Len(text) + 1) :
        /\ s = Len(text) + 1 \/ ~isSpace(text[s])
        /\ \A j \in q..(s - 1) : isSpace(text[j])

\* mutation of boundaryAt: the group stops at the end of the text only
boundaryAt_EndOnly(lower, i, next) == i = Len(lower) + 1

\* the lookahead (?=\n\n|NEXT:|$) at position i; the last expression has no NEXT
boundaryAt(lower, i, next) ==
    \/ occursAt(lower, <<"\n", "\n">>, i)
    \/ (next # <<>> /\ occursAt(lower, next, i))
    \/ i = Len(lower) + 1


\* (.+?) : the group holds the character at start and grows one character
\* at a time until the lookahead holds
lazyEnd(lower, start, next) ==
    CHOOSE e \in start..Len(lower) :
        /\ boundaryAt(lower, e + 1, next)
        /\ \A j \in start..(e - 1) : ~boundaryAt(lower, j + 1, next)

\* text.match(/LABEL:\s*(.+?)(?=\n\n|NEXT:|$)/is): the group of the leftmost
\* match, null when there is no match. The group needs one character: when
\* the white space after the label runs to the end of the text, \s* gives its
\* last character back to the group.
match(text, lower, label, next) ==
    LET p == indexOf(lower, label)
        q == p + Len(label)
        s == spacesEnd(text, q)
        start == IF s <= Len(text) THEN s ELSE s - 1
    IN  IF p = 0 \/ q > Len(text)
        THEN Null
        ELSE Str(SubSeq(text, start, lazyEnd(lower, start, next)))

\* mutation of extracted: a label without a match leaves the field empty
extracted_NoFallback(m, fallback) ==
    IF m.t = "null" THEN Str(<<>>) ELSE Str(trim(m.v))

\* m ? m[1].trim() : fallback
extracted(m, fallback) ==
    IF m.t = "null" THEN Str(fallback) ELSE Str(trim(m.v))

\* the label the k-th expression stops at
nextLabel(k) == IF k < Len(LABELS) THEN toLowerCase(LABELS[k + 1]) ELSE <<>>

\* the six fields of the advice object, by position in FIELDS
parsedFields(text, lower) ==
    [k \in 1..Len(LABELS) |->
        extracted(match(text, lower, toLowerCase(LABELS[k]), nextLabel(k)), FALLBACKS[k])]

\* text.match throws on a value that is no string; the catch block rethrows
parseAdviceResponse(text) ==
    IF text.t # "string"
    THEN ParseError
    ELSE LET advice == parsedFields(text.v, toLowerCase(text.v))
         IN  [cause |-> advice[1], symptoms |-> advice[2], immediate |-> advice[3],
              chemical |-> advice[4], organic |-> advice[5], prevention |-> advice[6]]

---------------------------------------------------------------------------
(* The parser harness: parseAdviceResponse applied to drawn texts, and to the
   text its own result is written back as. *)

RECURSIVE flatten(_)
flatten(parts) == IF parts = <<>> THEN <<>> ELSE Head(parts) \o flatten(Tail(parts))

\* the fields of an advice object in the order of FIELDS
fieldValues(advice) ==
    <<advice.cause, advice.symptoms, advice.immediate,
      advice.chemical, advice.organic, advice.prevention>>

\* the format the prompt asks the model for: "LABEL: value" sections in the
\* fixed order, one blank line between them
serialize(advice) ==
    LET values == fieldValues(advice)
    IN  flatten([k \in 1..Len(LABELS) |->
            LABELS[k] \o <<" ">> \o values[k].v
                \o (IF k < Len(LABELS) THEN <<"\n", "\n">> ELSE <<>>)])

\* the pieces free texts are put together from
Tokens ==
    { <<"C","A","U","S","E",":">>, <<"C","a","u","s","e",":">>, <<"S","Y","M","P","T","O","M","S",":">>, <<"P","R","E","V","E","N","T","I","O","N",":">>,
      <<" ">>, <<"\n", "\n">>, <<"a">> }

FreeTexts ==
    {flatten(parts) : parts \in UNION {[1..n -> Tokens] : n \in 0..MaxTokens}}

\* what stands after a label in a structured text
Bodies == { <<"a">>, <<"b", "\n", "c">> }

Absent == <<"-">>

\* how a structured text is laid out: before the first label, between label
\* and body, between sections, after the last body
Layouts ==
    { [lead |-> <<>>, gap |-> <<" ">>, sep |-> <<"\n", "\n">>, tail |-> <<>>],
      [lead |-> <<"\n">>, gap |-> <<>>, sep |-> <<"\n">>, tail |-> <<"\n", " ", " ">>] }

\* the text with the sections whose body is not Absent
render(layout, bodies) ==
    layout.lead
    \o flatten([k \in 1..Len(LABELS) |->
            IF bodies[k] = Absent THEN <<>>
            ELSE LABELS[k] \o layout.gap \o bodies[k] \o layout.sep])
    \o layout.tail

StructuredTexts ==
    {render(layout, bodies) :
        layout \in Layouts, bodies \in [1..Len(LABELS) -> Bodies \cup {Absent}]}

\* the first n sections, each with the same body
prefixBodies(n, body) == [k \in 1..Len(LABELS) |-> IF k <= n THEN body ELSE Absent]

ParserTexts ==
    {Undefined} \cup {Str(text) : text \in FreeTexts \cup StructuredTexts}

ParserInit ==
    /\ pText \in ParserTexts
    /\ pOp = "none"
    /\ pOut = Undefined
    /\ pFirst = Undefined
    /\ RouteIdle
    /\ HarnessIdle
    /\ AppIdle

ApplyParse ==
    /\ pOp = "none"
    /\ pOp' = "parse"
    /\ pOut' = parseAdviceResponse(pText)
    /\ pFirst' = pOut'
    /\ UNCHANGED <<pText, routeVars, validatorVars, appVars>>

\* the result of the first parse is written back as text and parsed again
ApplyReparse ==
    /\ pOp = "parse"
    /\ pOut # ParseError
    /\ pOp' = "reparse"
    /\ pOut' = parseAdviceResponse(Str(serialize(pOut)))
    /\ UNCHANGED <<pText, pFirst, routeVars, validatorVars, appVars>>

ParserNext ==
    \/ ApplyParse
    \/ ApplyReparse

SpecParser == ParserInit /\ [][ParserNext]_vars
---------------------------------------------------------------------------
(* The image analyze route: POST /crop-advice with an uploaded file, which
   asks the CNN service for a prediction and then the advice service. *)

MaxClass == 4

Bool(b) == [t |-> "boolean", v |-> b]

\* req.file as multer leaves it: undefined when no file was uploaded
Files == {Undefined} \cup {[t |-> "file", originalname |-> n] : n \in {"leaf.jpg", "field.png"}}

ClassifierErrors == {Undefined, Text("No leaf detected"), Text("Image too blurry")}

\* cnnResponse.data: the reply of the CNN service, { success, class_index,
\* confidence, error }; a reply without a body has data null
Predictions ==
    {Null}
    \cup {[t |-> "object", success |-> s, error |-> e, class_index |-> Undefined,
           confidence |-> Undefined] : s \in {Bool(FALSE), Undefined}, e \in ClassifierErrors}
    \cup {[t |-> "object", success |-> Bool(TRUE), error |-> Undefined, class_index |-> Num(k),
           confidence |-> c] : k \in 0..MaxClass, c \in {Undefined, Num(0), Num(55), Num(93)}}

\* mutation of predictionRejected: the reply is never tested
predictionRejected_Never(prediction) == FALSE

\* if (!prediction.success)
predictionRejected(prediction) == ~Truthy(prediction.success)

imageRequired == [status |-> 400, body |-> [error |-> Text("Image file required")]]
pipelineFailed == [status |-> 500, body |-> [error |-> Text("Prediction pipeline failed")]]

\* res.json({ success: false, message: prediction.error })
invalidInput(prediction) ==
    [status |-> 200, body |-> [success |-> FALSE, message |-> prediction.error]]

LEAF_MOLD == Str(<<"L","e","a","f","_","M","o","l","d">>)
MODERATE == Str(<<"M","o","d","e","r","a","t","e">>)

\* the argument of llmService.generateCropAdvice, as the service destructures it
analyzeRequest(prediction) ==
    destructured([crop |-> TOMATO, disease |-> LEAF_MOLD, severity |-> MODERATE,
                  confidence |-> prediction.confidence])

\* res.json({ success: true, disease, confidence: prediction.confidence, advice })
analyzed(prediction, diseaseData) ==
    [status |-> 200,
     body |-> [success |-> TRUE, disease |-> LEAF_MOLD, confidence |-> prediction.confidence,
               advice |-> adviceFor(diseaseData, adviceSource(diseaseData))]]

notAnalyzeVars == <<routeVars, validatorVars, parserVars, likeVars, accountVars>>

\* the handler up to await axios.post
PostAnalyze(file) ==
    /\ aPc = "idle"
    /\ aFile' = file
    /\ IF ~Truthy(file)
       THEN /\ aResponse' = imageRequired
            /\ aPc' = "done"
       ELSE /\ aPc' = "awaitCnn"
            /\ UNCHANGED aResponse
    /\ UNCHANGED <<aPrediction, aAdviceCalls, notAnalyzeVars>>

\* axios.post resolves with the reply; the handler runs to its next await or
\* to its response (reading prediction.success of a null body throws)
CnnReplies(data) ==
    /\ aPc = "awaitCnn"
    /\ aPrediction' = data
    /\ IF data = Null
       THEN /\ aResponse' = pipelineFailed
            /\ aPc' = "done"
            /\ UNCHANGED aAdviceCalls
       ELSE IF predictionRejected(data)
       THEN /\ aResponse' = invalidInput(data)
            /\ aPc' = "done"
            /\ UNCHANGED aAdviceCalls
       ELSE /\ aAdviceCalls' = <<analyzeRequest(data)>>
            /\ aPc' = "awaitAdvice"
            /\ UNCHANGED aResponse
    /\ UNCHANGED <<aFile, notAnalyzeVars>>

\* axios.post rejects: the service is down or answered with an error status
CnnFails ==
    /\ aPc = "awaitCnn"
    /\ aResponse' = pipelineFailed
    /\ aPc' = "done"
    /\ UNCHANGED <<aFile, aPrediction, aAdviceCalls, notAnalyzeVars>>

AnalyzeAdviceResolves ==
    /\ aPc = "awaitAdvice"
    /\ aResponse' = analyzed(aPrediction, aAdviceCalls[1])
    /\ aPc' = "done"
    /\ UNCHANGED <<aFile, aPrediction, aAdviceCalls, notAnalyzeVars>>

AnalyzeAdviceRejects ==
    /\ aPc = "awaitAdvice"
    /\ aResponse' = pipelineFailed
    /\ aPc' = "done"
    /\ UNCHANGED <<aFile, aPrediction, aAdviceCalls, notAnalyzeVars>>

AnalyzeInit == RouteIdle /\ HarnessIdle /\ ParserIdle /\ AppIdle

AnalyzeNext ==
    \/ \E file \in Files : PostAnalyze(file)
    \/ \E data \in Predictions : CnnReplies(data)
    \/ CnnFails
    \/ AnalyzeAdviceResolves
    \/ AnalyzeAdviceRejects

SpecAnalyze == AnalyzeInit /\ [][AnalyzeNext]_vars

---------------------------------------------------------------------------
(* routes/communityRoutes.js: PUT /:id/like on one CommunityPost document.
   Every await of the handler is a step of its own, so that requests
   interleave as they do on the event loop. *)

MaxLikes == 3

LikeUsers == {"u1", "u2"}

\* the post as the create route stores it (likes: [], __v: 0), or no post
LikePosts == {Null, [t |-> "post", likes |-> <<>>, v |-> 0]}

\* post.likes.includes(userId) on the array of ids
likesIncludes(likes, userId) == \E i \in 1..Len(likes) : likes[i] = userId

\* post.likes.filter(id => id.toString() !== userId)
without(likes, userId) == SelectSeq(likes, LAMBDA id : id # userId)

\* mutation of toggled: the user is pushed whether or not it is in likes
toggled_AlwaysPush(likes, userId) == Append(likes, userId)

\* the if/else of the handler, applied to the document it loaded
toggled(likes, userId) ==
    IF likesIncludes(likes, userId) THEN without(likes, userId) ELSE Append(likes, userId)

\* how Mongoose will write the change: push() is sent as $push of the new
\* element, an assigned array as $set of the whole array
changeOf(likes, userId) == IF likesIncludes(likes, userId) THEN "set" ELSE "push"

\* post.save() as Mongoose sends it: a $push is appended to the stored array
\* whatever it holds by now; a $set of an array is sent with the version the
\* document was loaded with and fails with a VersionError when the stored
\* version has moved on. Both increment the version.
saveApplies(stored, req) == req.change = "push" \/ stored.v = req.v

saved(stored, req) ==
    [stored EXCEPT !.likes = IF req.change = "push" THEN Append(stored.likes, req.user)
                             ELSE req.likes,
                   !.v = stored.v + 1]

notFound == [status |-> 404, message |-> Text("Post not found")]
likesOf(req) == [status |-> 200, likes |-> req.likes]
saveError == [status |-> 400, message |-> Text("VersionError")]

notLikeVars == <<routeVars, validatorVars, parserVars, analyzeVars, accountVars>>

\* a request arrives: the handler runs to await CommunityPost.findById
PutLike(userId) ==
    /\ post' = post
    /\ Len(likeRequests) < MaxLikes
    /\ likeRequests' = Append(likeRequests,
            [user |-> userId, pc |-> "find", likes |-> <<>>, v |-> 0,
             change |-> "none", response |-> NoResponse])
    /\ UNCHANGED notLikeVars

\* findById resolves: the handler toggles the document it holds and runs to
\* await post.save(), or answers 404
FindResolves(r) ==
    /\ likeRequests[r].pc = "find"
    /\ IF post = Null
       THEN likeRequests' = [likeRequests EXCEPT ![r].pc = "done", ![r].response = notFound]
       ELSE likeRequests' = [likeRequests EXCEPT
                ![r].pc = "save",
                ![r].likes = toggled(post.likes, likeRequests[r].user),
                ![r].v = post.v,
                ![r].change = changeOf(post.likes, likeRequests[r].user)]
    /\ UNCHANGED <<post, notLikeVars>>

\* post.save() resolves and the handler answers with the likes it holds
SaveResolves(r) ==
    /\ likeRequests[r].pc = "save"
    /\ saveApplies(post, likeRequests[r])
    /\ post' = saved(post, likeRequests[r])
    /\ likeRequests' = [likeRequests EXCEPT ![r].pc = "done",
                                            ![r].response = likesOf(likeRequests[r])]
    /\ UNCHANGED notLikeVars

\* post.save() rejects and the catch block answers 400
SaveRejects(r) ==
    /\ likeRequests[r].pc = "save"
    /\ ~saveApplies(post, likeRequests[r])
    /\ likeRequests' = [likeRequests EXCEPT ![r].pc = "done", ![r].response = saveError]
    /\ UNCHANGED <<post, notLikeVars>>

LikeInit ==
    /\ post \in LikePosts
    /\ likeRequests = <<>>
    /\ RouteIdle /\ HarnessIdle /\ ParserIdle /\ AnalyzeIdle /\ AccountIdle

LikeNext ==
    \/ \E userId \in LikeUsers : PutLike(userId)
    \/ \E r \in DOMAIN likeRequests : FindResolves(r)
    \/ \E r \in DOMAIN likeRequests : SaveResolves(r)
    \/ \E r \in DOMAIN likeRequests : SaveRejects(r)

SpecLike == LikeInit /\ [][LikeNext]_vars

---------------------------------------------------------------------------
(* routes/authRoutes.js POST /login and routes/settingsRoutes.js POST /, on
   the User and AppSettings collections. Every await of a handler is a step
   of its own. A user's _id is its position in the collection. *)

MaxAccountRequests == 3

\* req.body.phoneNumber: missing, or one of two numbers
PhoneNumbers == {"", "p1", "p2"}

\* req.body.language of a settings request: "" stands for undefined
SettingsLanguages == {"", "hi"}

\* AppSettings.findOne({ user: userId }): the position of the first record
\* of the user, 0 for null
findSettings(settings, userId) ==
    IF \E i \in 1..Len(settings) : settings[i].user = userId
    THEN leftmost({i \in 1..Len(settings) : settings[i].user = userId})
    ELSE 0

\* User.findOne({ phoneNumber }): the _id of the user, 0 for null
findUser(collection, phoneNumber) ==
    IF \E i \in 1..Len(collection) : collection[i] = phoneNumber
    THEN leftmost({i \in 1..Len(collection) : collection[i] = phoneNumber})
    ELSE 0

\* AppSettings.create({ user, language, ... }): the schema has no unique index
\* on user, so the insert is accepted whatever the collection holds; a
\* language that is undefined takes the schema default 'en'
settingsCreated(settings, userId, language) ==
    Append(settings, [user |-> userId, language |-> IF language = "" THEN "en" ELSE language])

\* if (language !== undefined) settings.language = language; settings.save()
settingsSaved(settings, found, language) ==
    IF language = "" THEN settings ELSE [settings EXCEPT ![found].language = language]

phoneRequired == [status |-> 400, message |-> Text("Phone number is required")]
otpSent(userId) == [status |-> 200, message |-> Text("OTP sent successfully"), userId |-> userId]
settingsOf(userId) == [status |-> 200, user |-> userId]
duplicateKey == [status |-> 500, message |-> Text("E11000 duplicate key error")]

AccountRequest(kind, at, phoneNumber, userId, language) ==
    [kind |-> kind, pc |-> at, phoneNumber |-> phoneNumber, userId |-> userId,
     language |-> language, found |-> 0, response |-> NoResponse]

notAccountVars == <<routeVars, validatorVars, parserVars, analyzeVars, likeVars>>

\* POST /login arrives: the handler answers 400 or runs to await User.findOne
PostLogin(phoneNumber) ==
    /\ Len(accountRequests) < MaxAccountRequests
    /\ accountRequests' = Append(accountRequests,
            IF phoneNumber = ""
            THEN [AccountRequest("login", "done", phoneNumber, 0, "") EXCEPT !.response = phoneRequired]
            ELSE AccountRequest("login", "findUser", phoneNumber, 0, ""))
    /\ UNCHANGED <<users, appSettings, notAccountVars>>

\* User.findOne resolves: a known user is answered, a new one is created
FindUserResolves(r) ==
    /\ accountRequests[r].pc = "findUser"
    /\ LET user == findUser(users, accountRequests[r].phoneNumber)
       IN  accountRequests' =
             IF user # 0
             THEN [accountRequests EXCEPT ![r].pc = "done", ![r].userId = user,
                                          ![r].response = otpSent(user)]
             ELSE [accountRequests EXCEPT ![r].pc = "createUser"]
    /\ UNCHANGED <<users, appSettings, notAccountVars>>

\* User.create resolves: the handler runs to await AppSettings.create
CreateUserResolves(r) ==
    /\ accountRequests[r].pc = "createUser"
    /\ findUser(users, accountRequests[r].phoneNumber) = 0
    /\ users' = Append(users, accountRequests[r].phoneNumber)
    /\ accountRequests' = [accountRequests EXCEPT ![r].pc = "createSettings",
                                                  ![r].userId = Len(users) + 1]
    /\ UNCHANGED <<appSettings, notAccountVars>>

\* User.create rejects on the unique index of phoneNumber: catch block
CreateUserRejects(r) ==
    /\ accountRequests[r].pc = "createUser"
    /\ findUser(users, accountRequests[r].phoneNumber) # 0
    /\ accountRequests' = [accountRequests EXCEPT ![r].pc = "done", ![r].response = duplicateKey]
    /\ UNCHANGED <<users, appSettings, notAccountVars>>

\* AppSettings.create({ user: user._id }) of the login handler resolves
LoginSettingsCreated(r) ==
    /\ accountRequests[r].kind = "login"
    /\ accountRequests[r].pc = "createSettings"
    /\ appSettings' = settingsCreated(appSettings, accountRequests[r].userId, "")
    /\ accountRequests' = [accountRequests EXCEPT ![r].pc = "done",
                                ![r].response = otpSent(accountRequests[r].userId)]
    /\ UNCHANGED <<users, notAccountVars>>

\* POST /api/settings arrives for a user id the client has learned: the
\* handler runs to await AppSettings.findOne
PostSettings(userId, language) ==
    /\ Len(accountRequests) < MaxAccountRequests
    /\ userId \in 1..Len(users)
    /\ accountRequests' = Append(accountRequests,
            AccountRequest("settings", "findSettings", "", userId, language))
    /\ UNCHANGED <<users, appSettings, notAccountVars>>

\* AppSettings.findOne resolves: the handler changes the record it holds and
\* runs to await settings.save(), or runs to await AppSettings.create
FindSettingsResolves(r) ==
    /\ accountRequests[r].pc = "findSettings"
    /\ LET found == findSettings(appSettings, accountRequests[r].userId)
       IN  accountRequests' =
             IF found # 0
             THEN [accountRequests EXCEPT ![r].pc = "saveSettings", ![r].found = found]
             ELSE [accountRequests EXCEPT ![r].pc = "createSettings"]
    /\ UNCHANGED <<users, appSettings, notAccountVars>>

\* settings.save() resolves
SettingsSaved(r) ==
    /\ accountRequests[r].pc = "saveSettings"
    /\ appSettings' = settingsSaved(appSettings, accountRequests[r].found, accountRequests[r].language)
    /\ accountRequests' = [accountRequests EXCEPT ![r].pc = "done",
                                ![r].response = settingsOf(accountRequests[r].userId)]
    /\ UNCHANGED <<users, notAccountVars>>

\* AppSettings.create of the settings handler resolves
SettingsCreated(r) ==
    /\ accountRequests[r].kind = "settings"
    /\ accountRequests[r].pc = "createSettings"
    /\ appSettings' = settingsCreated(appSettings, accountRequests[r].userId, accountRequests[r].language)
    /\ accountRequests' = [accountRequests EXCEPT ![r].pc = "done",
                                ![r].response = settingsOf(accountRequests[r].userId)]
    /\ UNCHANGED <<users, notAccountVars>>

AccountInit == RouteIdle /\ HarnessIdle /\ ParserIdle /\ AppIdle

AccountNext ==
    \/ \E phoneNumber \in PhoneNumbers : PostLogin(phoneNumber)
    \/ \E r \in DOMAIN accountRequests : FindUserResolves(r)
    \/ \E r \in DOMAIN accountRequests : CreateUserResolves(r)
    \/ \E r \in DOMAIN accountRequests : CreateUserRejects(r)
    \/ \E r \in DOMAIN accountRequests : LoginSettingsCreated(r)
    \/ \E userId \in 1..Len(users), language \in SettingsLanguages : PostSettings(userId, language)
    \/ \E r \in DOMAIN accountRequests : FindSettingsResolves(r)
    \/ \E r \in DOMAIN accountRequests : SettingsSaved(r)
    \/ \E r \in DOMAIN accountRequests : SettingsCreated(r)

SpecAccount == AccountInit /\ [][AccountNext]_vars

---------------------------------------------------------------------------
(* Claims about the advice routes. *)

MissingFieldsError == Template("Missing required fields: crop and disease are required", <<>>)
ConfidenceError == Template("Confidence must be between 0 and 1", <<>>)

isSingle == request.kind = "single"
isBatch == request.kind = "batch"
responded == response.t = "response"
emptyOrMissing(x) == x.t \in {"undefined", "null"} \/ (x.t = "string" /\ x.v = <<>>)
outside01(confidence) == confidence.t = "number" /\ (confidence.v < 0 \/ confidence.v > 100)

\* C1: in POST /crop-advice generateCropAdvice is invoked only after
\* validateCropAndDisease succeeded for the request's crop and disease, and a
\* request whose validation failed ends with a failure response and no
\* invocation.
C1_AdviceOnlyAfterValidation ==
    isSingle =>
        /\ adviceCalls # <<>> =>
              /\ Len(validation) = 1
              /\ validation[1] = validateCropAndDisease(request.body.crop, request.body.disease)
              /\ validation[1].success
        /\ (validation # <<>> /\ ~validation[1].success) =>
              /\ adviceCalls = <<>>
              /\ responded
              /\ ~response.success

C1_Witness ==
    /\ isSingle
    /\ pc = "awaitSingle"
    /\ Len(adviceCalls) = 1
    /\ validation[1].success

\* the first entry of a batch (counted from 0) that lacks a field or fails
\* validateCropAndDisease, -1 when every entry is valid
firstInvalid(diseases) ==
    LET bad == {i \in 0..(Len(diseases) - 1) :
                   \/ emptyOrMissing(diseases[i + 1].crop)
                   \/ emptyOrMissing(diseases[i + 1].disease)
                   \/ ~validateCropAndDisease(diseases[i + 1].crop, diseases[i + 1].disease).success}
    IN  IF bad = {} THEN -1 ELSE CHOOSE i \in bad : \A j \in bad : i <= j

isEntryList == isBatch /\ request.body.diseases.t = "array" /\ Len(request.body.diseases.v) > 0

\* C2: in the batch route every tuple is validated before any advice call is
\* issued; when the first invalid tuple is at index i the batch is aborted, the
\* response reports index i and no advice call is made for any tuple.
C2_BatchFailFast ==
    isEntryList =>
        /\ adviceCalls # <<>> =>
              /\ Len(validation) = Len(request.body.diseases.v)
              /\ \A k \in 1..Len(validation) : validation[k].success
        /\ firstInvalid(request.body.diseases.v) >= 0 =>
              /\ responded
              /\ ~response.success
              /\ response.index = Num(firstInvalid(request.body.diseases.v))
              /\ adviceCalls = <<>>
              /\ callState = <<>>

\* three tuples of which the second is invalid
C2_Witness ==
    /\ isEntryList
    /\ Len(request.body.diseases.v) = 3
    /\ firstInvalid(request.body.diseases.v) = 1
    /\ response.index = Num(1)
    /\ adviceCalls = <<>>

\* C3: with a valid crop and disease, confidence 0 and confidence 1 are
\* accepted, and a confidence below 0 or above 1 is rejected with an error
\* before any advice call is made.
C3_ConfidenceBoundary ==
    (isSingle /\ validation # <<>> /\ validation[1].success) =>
        /\ request.body.confidence \in {Num(0), Num(100)} =>
              /\ Len(adviceCalls) = 1
              /\ responded => response.error # ConfidenceError
        /\ outside01(request.body.confidence) =>
              /\ adviceCalls = <<>>
              /\ responded
              /\ response.status = 400
              /\ response.error = ConfidenceError

C3_Witness ==
    /\ isSingle
    /\ validation # <<>>
    /\ validation[1].success
    /\ request.body.confidence = Num(101)
    /\ response.error = ConfidenceError
    /\ adviceCalls = <<>>

C5_MissingFieldsRejected ==
    (isSingle /\ (emptyOrMissing(request.body.crop) \/ emptyOrMissing(request.body.disease))) =>
        /\ validation = <<>>
        /\ cropRuns = 0
        /\ diseaseRuns = 0
        /\ adviceCalls = <<>>
        /\ responded
        /\ response.status = 400
        /\ response.error = MissingFieldsError

C5_Witness ==
    /\ isSingle
    /\ request.body.crop = TOMATO
    /\ request.body.disease = Undefined
    /\ response.error = MissingFieldsError
    /\ adviceCalls = <<>>

\* C6: when an advice call fails the failure is answered as an error and no
\* advice is fabricated: the response carries no data, in the single route and
\* in the batch route alike.
C6_FailurePropagates ==
    (\E i \in DOMAIN callState : callState[i] = "failed") =>
        /\ responded
        /\ ~response.success
        /\ response.status = 500
        /\ Truthy(response.error)
        /\ response.data = Undefined

\* a batch in which one call resolved and another failed
C6_Witness ==
    /\ isBatch
    /\ \E i \in DOMAIN callState : callState[i] = "failed"
    /\ \E i \in DOMAIN callState : callState[i] = "ok"
    /\ responded
    /\ response.status = 500

\* C7: every AdviceRequest handed to generateCropAdvice, from the single route
\* or from a tuple of the batch route, has a confidence inside [0,1].
C7_ConfidenceInRange ==
    \A i \in DOMAIN adviceCalls :
        /\ adviceCalls[i].confidence.t = "number"
        /\ adviceCalls[i].confidence.v >= 0
        /\ adviceCalls[i].confidence.v <= 100


\* the advice request the batch route builds for an entry that validated
requestOf(entry, validationResult) ==
    [crop |-> validationResult.crop, disease |-> validationResult.disease,
     severity |-> OrElse(entry.severity, UNKNOWN),
     confidence |-> OrElse(entry.confidence, Num(0))]

\* the advice is the one generated for the advice request
adviceOf(advice, adviceRequest) ==
    /\ advice.metadata.crop = adviceRequest.crop
    /\ advice.metadata.disease = adviceRequest.disease
    /\ advice.metadata.severity = adviceRequest.severity
    /\ advice.metadata.confidence = adviceRequest.confidence

\* C20: a batch whose entries all validated makes one generateCropAdvice call
\* per entry, each call resolves at most once and in any order, and the data
\* array of the 200 answer holds at index i the advice for entry i whatever
\* order the calls resolved in.
C20_BatchResultsInInputOrder ==
    (isBatch /\ adviceCalls # <<>>) =>
        LET entries == request.body.diseases.v
        IN  /\ Len(adviceCalls) = Len(entries)
            /\ DOMAIN callState = DOMAIN adviceCalls
            /\ \A i \in DOMAIN adviceCalls :
                  /\ adviceCalls[i].crop = requestOf(entries[i], validation[i]).crop
                  /\ adviceCalls[i].disease = requestOf(entries[i], validation[i]).disease
                  /\ adviceCalls[i].severity = requestOf(entries[i], validation[i]).severity
                  /\ adviceCalls[i].confidence = requestOf(entries[i], validation[i]).confidence
            /\ Range(settled) = {i \in DOMAIN callState : callState[i] = "ok"}
            /\ Cardinality(Range(settled)) = Len(settled)
            /\ (responded /\ response.success) =>
                  /\ Len(settled) = Len(entries)
                  /\ Len(response.data.v) = Len(entries)
                  /\ \A i \in 1..Len(entries) :
                        adviceOf(response.data.v[i], requestOf(entries[i], validation[i]))

\* three different entries whose calls resolved third, first, second
C20_Witness ==
    /\ isBatch
    /\ responded
    /\ response.success
    /\ settled = <<3, 1, 2>>
    /\ request.body.diseases.v[1].crop = TOMATO
    /\ request.body.diseases.v[2].crop = Str(<<"p","o","t","a","t","o">>)
    /\ request.body.diseases.v[3].confidence = Num(150)
    /\ response.data.v[2].metadata.crop = Str(<<"p","o","t","a","t","o">>)
    /\ response.data.v[3].metadata.confidence = Num(150)

\* the advice calls of the request that took the Gemini path
geminiPath == {i \in DOMAIN adviceCalls : adviceSource(adviceCalls[i]) = "gemini"}

\* C21: a single advice request causes at most one generateContent
\* invocation and every validated entry of a batch exactly one, and the
\* number stays what it is when an invocation resolves or fails.
C21_NoRetry ==
    /\ isSingle => (geminiCalls <= 1 /\ geminiCalls = Cardinality(geminiPath))
    /\ (isBatch /\ adviceCalls # <<>>) =>
          /\ geminiCalls = Len(request.body.diseases.v)
          /\ geminiCalls = Len(callState)
    /\ (isBatch /\ adviceCalls = <<>>) => geminiCalls = 0

\* a batch of three of which one call failed and the others resolved
C21_Witness ==
    /\ isBatch
    /\ Len(callState) = 3
    /\ callState[2] = "failed"
    /\ callState[1] = "ok"
    /\ callState[3] = "ok"
    /\ responded
    /\ response.status = 500
    /\ geminiCalls = 3

C21_WitnessSingle ==
    /\ isSingle
    /\ callState = <<"failed">>
    /\ response.status = 500
    /\ geminiCalls = 1

\* the client asked for a language other than 'en'
otherLanguage(body) == Truthy(body.language) /\ body.language # EN

C23_DefaultsToEnglish ==
    /\ (isSingle /\ ~Truthy(request.body.language)) =>
          \A i \in DOMAIN adviceCalls :
              /\ adviceCalls[i].language = EN
              /\ promptLanguage(adviceCalls[i]) = Text("English")
    /\ isBatch =>
          \A i \in DOMAIN adviceCalls :
              /\ adviceCalls[i].language = EN
              /\ promptLanguage(adviceCalls[i]) = Text("English")

\* the single route alone
C23_SingleDefaultsToEnglish ==
    (isSingle /\ ~Truthy(request.body.language)) =>
        \A i \in DOMAIN adviceCalls :
            /\ adviceCalls[i].language = EN
            /\ promptLanguage(adviceCalls[i]) = Text("English")
---------------------------------------------------------------------------
(* Claims about the validator. *)

\* C8: every successful validateCropAndDisease returns canonical vocabulary
\* entries: the crop is a member of VALID_CROPS, the disease is a lower-case
\* entry of the crop's disease list or of the generic set, and for a crop c
\* with a disease list and d in it, any case variant of d comes back as d.
C8_CanonicalResult ==
    (vOp = "validateCropAndDisease" /\ vOut.success) =>
        /\ vOut.crop.t = "string"
        /\ vOut.crop.v \in Range(VALID_CROPS)
        /\ vOut.disease.t = "string"
        /\ vOut.disease.v \in
              (IF hasDiseaseList(vOut.crop.v) THEN Range(CROP_DISEASES[vOut.crop.v]) ELSE {})
              \cup Range(GENERIC_DISEASES)
        /\ \A c \in DOMAIN CROP_DISEASES : \A d \in Range(CROP_DISEASES[c]) :
              (vIn.crop = Str(c) /\ vIn.disease.t = "string" /\ vIn.disease.v \in CaseVariants(d))
                  => vOut.disease = Str(d)

\* C9: for every crop c of the vocabulary validateCrop(c) matches c itself
\* and carries no warning.
C9_ExactMatchIdentity ==
    (vOp = "validateCrop" /\ vIn.crop.t = "string" /\ vIn.crop.v \in Range(VALID_CROPS)) =>
        /\ vOut.isValid
        /\ vOut.suggestedCrop = vIn.crop
        /\ vOut.warning.t = "undefined"

C9_Witness ==
    /\ vOp = "validateCrop"
    /\ vIn.crop = Str(<<"s","o","y">>)
    /\ vOut.isValid
    /\ vOut.suggestedCrop = Str(<<"s","o","y">>)

\* C10: for every crop c of the vocabulary validateCrop(c + "e") matches c,
\* not another vocabulary entry, and carries a non-empty warning.
C10_TypoMatchesSameCrop ==
    \A c \in Range(VALID_CROPS) :
        (vOp = "validateCrop" /\ vIn.crop = Str(c \o <<"e">>)) =>
            /\ vOut.isValid
            /\ vOut.suggestedCrop = Str(c)
            /\ Truthy(vOut.warning)


\* the substring relation of the matchers: one word contains the other
related(entry, normalized) == includes(normalized, entry) \/ includes(entry, normalized)

\* the entries of a vocabulary that stand in the substring relation with a word
candidates(vocabulary, normalized) ==
    {i \in 1..Len(vocabulary) : related(vocabulary[i], normalized)}

\* C11: whenever validateCrop or validateDisease accepts a non-exact input
\* through the substring rule, exactly one entry of the vocabulary it matched
\* against stands in the substring relation with the normalized input.
C11_UnambiguousCorrection ==
    /\ (vOp = "validateCrop" /\ vOut.isValid
            /\ ~arrayIncludes(VALID_CROPS, normalizeInput(vIn.crop)))
          => Cardinality(candidates(VALID_CROPS, normalizeInput(vIn.crop))) = 1
    /\ (vOp = "validateDisease" /\ vOut.isValid /\ Truthy(vOut.suggestedDisease))
          => Cardinality(candidates(CROP_DISEASES[normalizeInput(vIn.crop)],
                                    normalizeInput(vIn.disease))) = 1

\* the interpretation warning of the crop matcher
cropInterpretation == Template("Interpreted", <<vIn.crop, vOut.crop>>)

\* the crop of a successful validation was not spelled as a vocabulary entry
cropFuzzy == ~arrayIncludes(VALID_CROPS, normalizeInput(vIn.crop))

\* the disease of a successful validation is no entry of the resolved crop's list
diseaseFuzzy ==
    ~(hasDiseaseList(vOut.crop.v)
        /\ arrayIncludes(CROP_DISEASES[vOut.crop.v], normalizeInput(vIn.disease)))

\* C12: the warnings of a successful validateCropAndDisease hold an entry for
\* the crop when the crop was accepted through a non-exact match, an entry for
\* the disease when the disease was, and nothing when both were exact.
C12_WarningsRecordInterpretations ==
    (vOp = "validateCropAndDisease" /\ vOut.success) =>
        /\ cropFuzzy => cropInterpretation \in Range(vOut.warnings.v)
        /\ diseaseFuzzy => \E w \in Range(vOut.warnings.v) : w # cropInterpretation
        /\ (~cropFuzzy /\ ~diseaseFuzzy) => vOut.warnings = Arr(<<>>)

cropStageFailure ==
    vOp = "validateCropAndDisease" /\ ~vOut.success /\ vOut.error.tpl = "Invalid crop name"

diseaseStageFailure ==
    vOp = "validateCropAndDisease" /\ ~vOut.success /\ vOut.error.tpl = "Invalid disease for"

\* C13: validateCropAndDisease invokes validateCrop first and validateDisease
\* only after the crop matched; a failure of the disease stage carries the
\* crop validateCrop resolved, a failure of the crop stage carries no crop and
\* validateDisease was not invoked.
C13_CropStageFirst ==
    /\ vOp = "validateCropAndDisease" =>
          /\ vCalls[1] = "validateCrop"
          /\ (~vOut.success => (cropStageFailure \/ diseaseStageFailure))
          /\ vOut.success => vCalls = <<"validateCrop", "validateDisease">>
    /\ diseaseStageFailure =>
          /\ vCalls = <<"validateCrop", "validateDisease">>
          /\ vOut.crop.t = "string"
          /\ vOut.crop.v \in Range(VALID_CROPS)
          /\ related(vOut.crop.v, normalizeInput(vIn.crop))
    /\ cropStageFailure =>
          /\ vCalls = <<"validateCrop">>
          /\ vOut.crop.t = "undefined"
          /\ candidates(VALID_CROPS, normalizeInput(vIn.crop)) = {}

C13_Witness ==
    /\ diseaseStageFailure
    /\ vIn.crop = Str(<<"t","o","m","a","t","o","e">>)
    /\ vOut.crop = Str(<<"t","o","m","a","t","o">>)

C13_WitnessCropStage ==
    /\ cropStageFailure
    /\ vIn = [crop |-> Str(<<"x","y","z","1","2","3">>),
              disease |-> Str(<<"a","n","y","t","h","i","n","g">>)]
    /\ vCalls = <<"validateCrop">>

\* the entries of a list that contain a word, in the order of the list
containing(list, word) ==
    LET has(entry) == includes(entry, word) IN SelectSeq(list, has)

\* C14: when validateDisease fails for a crop that has a disease list, the
\* suggestions are a non-empty part of that list: the diseases containing the
\* first 4 characters of the normalized input when it has at least 4
\* characters and some disease contains them, otherwise the first 5 diseases.
C14_DiseaseSuggestions ==
    (vOp = "validateDisease" /\ hasDiseaseList(normalizeInput(vIn.crop)) /\ ~vOut.isValid) =>
        LET list == CROP_DISEASES[normalizeInput(vIn.crop)]
            normalized == normalizeInput(vIn.disease)
            hits == IF Len(normalized) >= 4
                    THEN containing(list, SubSeq(normalized, 1, 4)) ELSE <<>>
        IN  /\ vOut.suggestions.t = "array"
            /\ vOut.suggestions.v # <<>>
            /\ Range(vOut.suggestions.v) \subseteq Range(list)
            /\ vOut.suggestions.v = IF hits # <<>> THEN hits ELSE SubSeq(list, 1, 5)

C14_Witness ==
    /\ vOp = "validateDisease"
    /\ vIn = [crop |-> Str(<<"t","o","m","a","t","o">>),
              disease |-> Str(<<"r","a","n","d","o","m"," ","n","o","n","s","e","n","s","e">>)]
    /\ ~vOut.isValid
    /\ Len(vOut.suggestions.v) = 5

C14_WitnessPrefix ==
    /\ vOp = "validateDisease"
    /\ vIn = [crop |-> Str(<<"t","o","m","a","t","o">>),
              disease |-> Str(<<"e","a","r","l","y"," ","b","l","t">>)]
    /\ ~vOut.isValid
    /\ vOut.suggestions = Arr(<< <<"e","a","r","l","y"," ","b","l","i","g","h","t">> >>)

\* C15: for a vocabulary crop without a disease list validateDisease succeeds
\* exactly when the normalized disease is in the substring relation with an
\* entry of GENERIC_DISEASES, and then carries the generic-term warning;
\* otherwise it fails and suggests the first 5 entries of GENERIC_DISEASES.
C15_GenericOnlyCrops ==
    (vOp = "validateDisease"
        /\ arrayIncludes(VALID_CROPS, normalizeInput(vIn.crop))
        /\ ~hasDiseaseList(normalizeInput(vIn.crop))) =>
        /\ vOut.isValid <=> candidates(GENERIC_DISEASES, normalizeInput(vIn.disease)) # {}
        /\ vOut.isValid => vOut.warning = GenericWarning
        /\ ~vOut.isValid =>
              /\ vOut.suggestions = Arr(SubSeq(GENERIC_DISEASES, 1, 5))
              /\ vOut.message = Template("is not a recognized disease", <<vIn.disease>>)

C15_Witness ==
    /\ vOp = "validateDisease"
    /\ vIn = [crop |-> Str(<<"m","a","n","g","o">>), disease |-> Str(<<"f","u","n","g","a","l">>)]
    /\ vOut.isValid
    /\ vOut.warning = GenericWarning

C15_WitnessFailure ==
    /\ vOp = "validateDisease"
    /\ vIn = [crop |-> Str(<<"m","a","n","g","o">>), disease |-> Str(<<"x","y","z">>)]
    /\ ~vOut.isValid
    /\ Len(vOut.suggestions.v) = 5

\* C16: when validateCrop finds no match its suggestions are the vocabulary
\* crops that share the first three characters of the normalized input, and
\* there are none when the input is shorter than three characters or no crop
\* shares that prefix; "xyz123" has no match and no suggestions.
C16_CropSuggestions ==
    /\ (vOp = "validateCrop" /\ ~vOut.isValid) =>
          LET normalized == normalizeInput(vIn.crop)
              samePrefix(validCrop) ==
                  /\ Len(validCrop) >= 3
                  /\ SubSeq(validCrop, 1, 3) = SubSeq(normalized, 1, 3)
              sharing == IF Len(normalized) >= 3
                         THEN SelectSeq(VALID_CROPS, samePrefix) ELSE <<>>
          IN  /\ vOut.suggestedCrop = Null
              /\ vOut.suggestions = IF sharing # <<>> THEN Arr(sharing) ELSE Null
    /\ (vOp = "validateCrop" /\ vIn.crop = Str(<<"x","y","z","1","2","3">>)) =>
          /\ ~vOut.isValid
          /\ vOut.suggestions = Null

C16_Witness ==
    /\ vOp = "validateCrop"
    /\ vIn.crop = Str(<<"t","o","m","x">>)
    /\ ~vOut.isValid
    /\ vOut.suggestions = Arr(<< <<"t","o","m","a","t","o">> >>)

C16_WitnessNone ==
    /\ vOp = "validateCrop"
    /\ vIn.crop = Str(<<"t","o","x","x">>)
    /\ ~vOut.isValid
    /\ vOut.suggestions = Null
---------------------------------------------------------------------------
(* Claims about the parser. *)

\* the k-th label stands somewhere in the text, letter case ignored
labelFound(text, k) == indexOf(toLowerCase(text), toLowerCase(LABELS[k])) # 0

\* C17: for every string text parseAdviceResponse returns without raising,
\* and every field whose label is not in the text holds its fallback: for the
\* empty text all six, and for a text with the first n sections the fields
\* after the n-th, while the first n hold the bodies of their sections.
C17_FallbackForMissingLabels ==
    (pOp = "parse" /\ pText.t = "string") =>
        /\ pOut # ParseError
        /\ \A k \in 1..Len(LABELS) :
              ~labelFound(pText.v, k) => fieldValues(pOut)[k] = Str(FALLBACKS[k])
        /\ pText.v = <<>> =>
              fieldValues(pOut) = [k \in 1..Len(LABELS) |-> Str(FALLBACKS[k])]
        /\ \A layout \in Layouts, n \in 0..Len(LABELS), body \in Bodies :
              pText.v = render(layout, prefixBodies(n, body)) =>
                  \A k \in 1..Len(LABELS) :
                      fieldValues(pOut)[k] = IF k <= n THEN Str(body) ELSE Str(FALLBACKS[k])

C17_Witness ==
    /\ pOp = "parse"
    /\ pText = Str(render([lead |-> <<"\n">>, gap |-> <<>>, sep |-> <<"\n">>,
                           tail |-> <<"\n", " ", " ">>],
                          prefixBodies(3, <<"b", "\n", "c">>)))
    /\ pOut.immediate = Str(<<"b", "\n", "c">>)
    /\ pOut.chemical = Str(FALLBACKS[4])
    /\ pOut.prevention = Str(FALLBACKS[6])

C17_WitnessEmpty ==
    /\ pOp = "parse"
    /\ pText = Str(<<>>)
    /\ pOut.cause = Str(FALLBACKS[1])

\* C18: every advice object parseAdviceResponse builds from a string has six
\* fields that are non-empty strings, also when a label of the text is
\* followed by white space only.
C18_AllFieldsPopulated ==
    (pOp = "parse" /\ pText.t = "string") =>
        \A k \in 1..Len(LABELS) :
            /\ fieldValues(pOut)[k].t = "string"
            /\ fieldValues(pOut)[k].v # <<>>

\* the positions of the text where the k-th label stands
occurrences(lower, k) ==
    {i \in 1..Len(lower) : occursAt(lower, toLowerCase(LABELS[k]), i)}

\* the text holds each of the six labels once, in the fixed order, and each
\* is followed by a body before the next label or the end of the text
wellFormed(text) ==
    LET lower == toLowerCase(text)
        at(k) == CHOOSE i \in occurrences(lower, k) : TRUE
        limit(k) == IF k < Len(LABELS) THEN at(k + 1) ELSE Len(text) + 1
    IN  /\ \A k \in 1..Len(LABELS) : Cardinality(occurrences(lower, k)) = 1
        /\ \A k \in 1..Len(LABELS) : spacesEnd(text, at(k) + Len(LABELS[k])) < limit(k)

\* C19: for a well-formed text, writing the six parsed fields back as
\* "LABEL: value" sections in the fixed order with blank lines between them
\* and parsing that text gives the six values of the first parse.
C19_ReparseIsIdentity ==
    (pOp = "reparse" /\ wellFormed(pText.v)) => pOut = pFirst

C19_Witness ==
    /\ pOp = "reparse"
    /\ wellFormed(pText.v)
    /\ pFirst.cause = Str(<<"b", "\n", "c">>)
    /\ pFirst.prevention = Str(<<"a">>)
    /\ pOut = pFirst
---------------------------------------------------------------------------
(* Claims about the image analyze route. *)

\* the classifier replied with success: false
classifierRefused == aPrediction.t = "object" /\ aPrediction.success = Bool(FALSE)

\* C24: in the image analyze path a classifier reply with success: false is
\* not fatal and is no transport error: the request ends with a success:false
\* result that carries the classifier's message, not with the pipeline-failed
\* error, and the advice service is never called for it.
C24_ClassifierRefusalIsNotFatal ==
    classifierRefused =>
        /\ aPc = "done"
        /\ aResponse.status = 200
        /\ aResponse.body = [success |-> FALSE, message |-> aPrediction.error]
        /\ aResponse # pipelineFailed
        /\ aAdviceCalls = <<>>

\* a refusal with a message, answered
C24_Witness ==
    /\ classifierRefused
    /\ aPc = "done"
    /\ aFile # Undefined
    /\ aPrediction.error = Text("No leaf detected")
    /\ aResponse.body.message = Text("No leaf detected")

\* the transport error the refusal is distinct from
C24_WitnessTransport ==
    /\ aPc = "done"
    /\ aPrediction = NoResponse
    /\ aFile # Undefined
    /\ aResponse = pipelineFailed

---------------------------------------------------------------------------
(* Claims about the failure responses and about edge inputs. *)

\* the validation result the route answered a failure for
failedValidation == validation[Len(validation)]

validationFailed ==
    /\ responded
    /\ response.status = 400
    /\ validation # <<>>
    /\ ~failedValidation.success

cropStage == validationFailed /\ failedValidation.error.tpl = "Invalid crop name"
diseaseStage == validationFailed /\ failedValidation.error.tpl = "Invalid disease for"

\* C25: every domain-validation failure response carries its companion list:
\* a crop-stage failure carries the first 20 vocabulary crops, and every
\* disease-stage failure carries the full disease list of the crop that was
\* already resolved.
C25_FailureCarriesCompanionList ==
    /\ cropStage => response.validCrops = Arr(slice0(VALID_CROPS, 20))
    /\ diseaseStage =>
        /\ response.validDiseases.t = "array"
        /\ Len(response.validDiseases.v) > 0
        /\ hasDiseaseList(normalizeInput(failedValidation.crop))
        /\ response.validDiseases.v = CROP_DISEASES[normalizeInput(failedValidation.crop)]

\* the crop-stage half of C25
C25_CropStageCarriesPreview ==
    cropStage => response.validCrops = Arr(slice0(VALID_CROPS, 20))

\* the disease-stage half of C25 for the crops that have a disease list
C25_ListedCropCarriesDiseases ==
    (diseaseStage /\ hasDiseaseList(normalizeInput(failedValidation.crop))) =>
        response.validDiseases = Arr(CROP_DISEASES[normalizeInput(failedValidation.crop)])

\* the disease-stage failure of a crop without a list carries null
C25_UnlistedCropCarriesNull ==
    (diseaseStage /\ ~hasDiseaseList(normalizeInput(failedValidation.crop))) =>
        response.validDiseases = Null

TOMATOE == Str(<<"t","o","m","a","t","o","e">>)
EARLY_BLT == Str(<<"e","a","r","l","y"," ","b","l","t">>)

typoRequest ==
    /\ isSingle
    /\ request.body.crop = TOMATOE
    /\ request.body.disease = EARLY_BLT

\* C26: a request with crop "tomatoe" and disease "early blt" is accepted
\* through fuzzy matching: validation succeeds, and the success response
\* carries a warning about the interpretation.
C26_TypoRequestAccepted ==
    (typoRequest /\ validation # <<>>) =>
        /\ validation[1].success
        /\ (responded /\ response.status = 200) =>
            /\ response.warnings.t = "array"
            /\ Len(response.warnings.v) > 0

\* what the code answers the request with: the disease failure for 'tomato'
C26_TypoRequestRejected ==
    (typoRequest /\ responded) =>
        /\ response.status = 400
        /\ response.error.tpl = "Invalid disease for"
        /\ response.suggestions = Arr(<< <<"e","a","r","l","y"," ","b","l","i","g","h","t">> >>)

\* the normalized form of the input is the empty string
normalizesToEmpty(input) == normalizeInput(input) = <<>>

\* C27: a crop or disease input whose normalized form is the empty string
\* (white space only, or a value that is no string) is never accepted:
\* validateCrop and validateDisease return a failure for it, and so does
\* validateCropAndDisease, the gate before the advice service.
C27_EmptyNeverAccepted ==
    /\ (vOp = "validateCrop" /\ normalizesToEmpty(vIn.crop)) => ~vOut.isValid
    /\ (vOp = "validateDisease" /\ normalizesToEmpty(vIn.disease)) => ~vOut.isValid
    /\ (vOp = "validateCropAndDisease"
        /\ (normalizesToEmpty(vIn.crop) \/ normalizesToEmpty(vIn.disease))) => ~vOut.success

\* what the code does with an empty crop: the first vocabulary crop is taken
C27_EmptyCropIsTomato ==
    (vOp = "validateCrop" /\ normalizesToEmpty(vIn.crop)) =>
        /\ vOut.isValid
        /\ vOut.suggestedCrop = Str(VALID_CROPS[1])

\* what the code does with an empty disease: every crop accepts it
C27_EmptyDiseaseAccepted ==
    (vOp = "validateDisease" /\ normalizesToEmpty(vIn.disease) /\ validateCrop(vIn.crop).isValid) =>
        vOut.isValid

\* C28: no field value extracted by parseAdviceResponse contains the label
\* of another section: each captured body ends before the next section label
\* that occurs in the text, also when an intermediate section is missing or a
\* section body is empty.
C28_NoForeignLabelInField ==
    (pOp = "parse" /\ pText.t = "string") =>
        \A k \in 1..Len(LABELS) : \A j \in 1..Len(LABELS) :
            j # k => ~labelFound(fieldValues(pOut)[k].v, j)

---------------------------------------------------------------------------
(* Claims about the like route. *)

\* the like requests of the user that were answered with the likes
completedLikes(userId) ==
    {r \in DOMAIN likeRequests :
        /\ likeRequests[r].user = userId
        /\ likeRequests[r].pc = "done"
        /\ likeRequests[r].response.status = 200}

\* the positions of the stored likes that hold the user
likesBy(userId) == {i \in 1..Len(post.likes) : post.likes[i] = userId}

\* C29: the like route toggles membership and keeps likes a set: after any
\* sequence or interleaving of PUT /:id/like requests a user id occurs at
\* most once in the likes of the post, and the user is in likes exactly when
\* that user has completed an odd number of like requests.
C29_LikesIsToggledSet ==
    post # Null =>
        \A userId \in LikeUsers :
            /\ Cardinality(likesBy(userId)) <= 1
            /\ likesBy(userId) # {} <=> Cardinality(completedLikes(userId)) % 2 = 1

\* no two requests overlap: every request but the last has been answered
sequential ==
    \A r \in DOMAIN likeRequests : r < Len(likeRequests) => likeRequests[r].pc = "done"

\* the stored likes hold no user twice
C29_NoDuplicateLike ==
    post # Null => \A userId \in LikeUsers : Cardinality(likesBy(userId)) <= 1

---------------------------------------------------------------------------
(* Claims about the AppSettings collection. *)

\* the AppSettings records of the user
settingsFor(userId) == {i \in 1..Len(appSettings) : appSettings[i].user = userId}

\* C30: there is at most one AppSettings record per user after any
\* interleaving of login requests, which create settings for a new user, and
\* POST /api/settings requests, which update the record when one exists and
\* create one otherwise.
C30_OneSettingsPerUser ==
    \A userId \in 1..Len(users) : Cardinality(settingsFor(userId)) <= 1

====
